---------------------------- MODULE Spec2Model ----------------------------
(***************************************************************************)
(* Light-sampling distributions of pbrt-v3 (src/core/lightdistrib.cpp,     *)
(* lightdistrib.h, sampling.h).                                            *)
(*                                                                         *)
(* The module holds several state machines over one set of variables:      *)
(*   Spec            the lock-free voxel cache of SpatialLightDistribution *)
(*   SpecPhotonVoxel the photon-voxel preprocess and its Lookup            *)
(*   SpecShoot       shootPhotons of the photon kd-tree variant            *)
(*   SpecMlCluster   shootPhotons and buildCluster of the mlcdftree variant*)
(*   SpecFactory     CreateLightSampleDistribution and Lookup per variant  *)
(*   SpecDistr       the three Distribution1D representations              *)
(* Each specification leaves the variables of the others at their initial  *)
(* values.  Real numbers are modelled exactly (rationals); the values a    *)
(* float division by zero produces (NaN, +Inf) are kept as such.           *)
(***************************************************************************)
EXTENDS Integers, Sequences, FiniteSets, TLC

VARIABLES
    \* SpatialLightDistribution
    hashTable,    \* slot -> [packedPos, distribution]
    threads,      \* thread -> locals of its running Lookup
    heap,         \* distributions allocated by ComputeDistribution: ptr -> voxel
    returned,     \* history: the Lookup calls that have returned, each with the
                  \* number of Lookup calls begun by then
    nLookups,     \* the statistics counter ++nLookups: Lookup calls begun
    \* PhotonBasedVoxelLightDistribution
    pvTable,      \* slot -> [packedPos, lightContrib, distribution]
    pvTasks,      \* photon index -> locals of its ParallelFor task
    pvMutex,      \* holder of m_screen (0: free)
    pvPhase,      \* "shoot" (first ParallelFor), "render" (constructor returned)
    pvLookups,    \* history: the last Lookup and the pointer it returned
    \* PhotonBasedMlCdfKdTreeLightDistribution: shootPhotons and buildCluster
    ml,           \* [pts, shot, pc, data, label, i, lightContributions, cdfCloud]
    \* PhotonBasedKdTreeLightDistribution: shootPhotons
    kd,           \* [pts, shot]
    \* CreateLightSampleDistribution and the LightDistribution it returned
    ld,           \* [pc, params, class, log, distrib, cdfCloudSize, results,
                  \*  mem, last, n]
    \* a distribution built from the sampling.h constructors
    dist,         \* [d, args]
    \* the packed keys of two voxels of a grid
    pk,           \* [nVoxels, a, b, packed, packedA, packedB]
    \* PhotonBasedKdTreeLightDistribution::Lookup
    kl,           \* [knn, interpolation, found, pc, lightContrib, distr]
    \* PhotonBasedCdfKdTreeLightDistribution::buildCluster
    cb            \* [pts, shot, clusters, pending, cdfCloud]

vars == <<hashTable, threads, heap, returned, nLookups,
          pvTable, pvTasks, pvMutex, pvPhase, pvLookups, ml, kd, ld, dist,
          pk, kl, cb>>

-----------------------------------------------------------------------------
(* Bounds of the model *)

NumThreads == 2      \* rendering threads calling Lookup concurrently
MaxLookups == 3      \* Lookup calls in all
OffsetDen  == 2      \* a point's offset in the scene bounds is q / OffsetDen

-----------------------------------------------------------------------------
(* 64-bit words: a uint64_t is the set of the positions of its 1 bits *)

RECURSIVE Pow2(_)
Pow2(n) == IF n = 0 THEN 1 ELSE 2 * Pow2(n - 1)

\* uint64_t(n) for an int n; a negative n is sign-extended
ToWord(n) == IF n >= 0 THEN {i \in 0..30 : (n \div Pow2(i)) % 2 = 1}
             ELSE (0..63) \ {i \in 0..30 : ((-n - 1) \div Pow2(i)) % 2 = 1}

ShiftLeft(w, k)  == {i + k : i \in {j \in w : j + k <= 63}}
ShiftRight(w, k) == {i - k : i \in {j \in w : j >= k}}
BitOr(a, b)  == a \cup b
BitXor(a, b) == (a \ b) \cup (b \ a)

\* the 16 hexadecimal digits of a word, digit 0 the least significant
Digits(w) == [p \in 0..15 |->
                (IF 4 * p \in w THEN 1 ELSE 0) + (IF 4 * p + 1 \in w THEN 2 ELSE 0)
              + (IF 4 * p + 2 \in w THEN 4 ELSE 0) + (IF 4 * p + 3 \in w THEN 8 ELSE 0)]
DigitBits(p, d) == {4 * p + b : b \in {x \in 0..3 : (d \div Pow2(x)) % 2 = 1}}

\* sum of a[i] * c[k - i] for i in 0..k
RECURSIVE ColumnSum(_, _, _, _)
ColumnSum(a, c, k, i) ==
    IF i > k THEN 0 ELSE a[i] * c[k - i] + ColumnSum(a, c, k, i + 1)

\* a * c modulo 2^64 on hexadecimal digits, column by column with carry
RECURSIVE MulCols(_, _, _, _)
MulCols(a, c, k, carry) ==
    IF k > 15 THEN {}
    ELSE LET s == ColumnSum(a, c, k, 0) + carry
         IN  DigitBits(k, s % 16) \cup MulCols(a, c, k + 1, s \div 16)
Mul64(a, c) == MulCols(Digits(a), Digits(c), 0, 0)

\* w % m for a small m, from the most significant digit down
RECURSIVE ModFrom(_, _, _, _)
ModFrom(d, m, k, r) ==
    IF k < 0 THEN r ELSE ModFrom(d, m, k - 1, (16 * r + d[k]) % m)
Mod64(w, m) == ModFrom(Digits(w), m, 15, 0)

\* the word written as 16 hexadecimal digits, most significant first
HexWord(d) == {4 * (16 - p) + b : <<p, b>> \in
                 {x \in (1..16) \X (0..3) : (d[x[1]] \div Pow2(x[2])) % 2 = 1}}

mixA == HexWord(<<7,15,11,5,13,3,2,9,7,2,8,14,10,1,8,5>>)    \* 0x7fb5d329728ea185
mixB == HexWord(<<8,1,13,10,13,14,15,4,11,12,2,13,13,4,4,13>>) \* 0x81dadef4bc2dd44d

invalidPackedPos == 0..63                                     \* 0xffffffffffffffff
nullptr == 0

-----------------------------------------------------------------------------
(* The voxel grid.  Axes are 1..3 here (0..2 in the source). *)

SceneDiag == <<2, 2, 1>>     \* scene.WorldBound().Diagonal()
maxVoxels == 2

Max(a, b) == IF a >= b THEN a ELSE b
Min(a, b) == IF a <= b THEN a ELSE b

\* std::round(x) of num/den >= 0
Round(num, den) == (2 * num + den) \div (2 * den)

bmax == Max(SceneDiag[1], Max(SceneDiag[2], SceneDiag[3]))
nVoxels == [i \in 1..3 |-> Max(1, Round(SceneDiag[i] * maxVoxels, bmax))]
hashTableSize == 4 * nVoxels[1] * nVoxels[2] * nVoxels[3]

Slots  == 0..(hashTableSize - 1)
Voxels == (0..(nVoxels[1] - 1)) \X (0..(nVoxels[2] - 1)) \X (0..(nVoxels[3] - 1))

\* A point, given by the numerators of its offset; -1 and OffsetDen + 1 lie
\* outside the scene bounds.
Coord  == (-1)..(OffsetDen + 1)
Points == Coord \X Coord \X Coord

\* int(x) of num/den: truncation toward zero
Trunc(num, den) == IF num >= 0 THEN num \div den ELSE -((-num) \div den)
Clamp(v, lo, hi) == IF v < lo THEN lo ELSE IF v > hi THEN hi ELSE v

\* pi[i] = int(offset[i] * nVoxels[i]) without the clamp
UnclampedVoxelOf(p) == [i \in 1..3 |-> Trunc(p[i] * nVoxels[i], OffsetDen)]

\* pi[i] = Clamp(int(offset[i] * nVoxels[i]), 0, nVoxels[i] - 1)
VoxelOf(p) == [i \in 1..3 |-> Clamp(Trunc(p[i] * nVoxels[i], OffsetDen), 0, nVoxels[i] - 1)]

\* the points Lookup is called with: three beyond a corner of the scene
\* bounds in x and y, the lowest corner, and the highest corner in x and y
ProbePoints ==
    {<<-1, -1, 0>>, <<-1, OffsetDen + 1, 0>>, <<OffsetDen + 1, -1, 0>>,
     <<0, 0, 0>>, <<OffsetDen, OffsetDen, 0>>}

\* the voxels Lookup computes for the points, inside and outside the bounds
PointVoxels == {VoxelOf(p) : p \in Points}

\* (ix << 20) | (iy << 10) | iz: the 10 bits per coordinate of the comment
PackedPos10(pi) ==
    BitOr(BitOr(ShiftLeft(ToWord(pi[1]), 20), ShiftLeft(ToWord(pi[2]), 10)), ToWord(pi[3]))

PackedPos(pi) ==
    BitOr(BitOr(ShiftLeft(ToWord(pi[1]), 40), ShiftLeft(ToWord(pi[2]), 20)), ToWord(pi[3]))

Mix64(k) ==
    LET h1 == BitXor(k, ShiftRight(k, 31))
        h2 == Mul64(h1, mixA)
        h3 == BitXor(h2, ShiftRight(h2, 27))
        h4 == Mul64(h3, mixB)
    IN  BitXor(h4, ShiftRight(h4, 33))

\* hash = mix(packedPos) % hashTableSize
Hash(packedPos) == Mod64(Mix64(packedPos), hashTableSize)

\* the packed key and the hash of every voxel of the grid, computed once
voxelKeys == {<<pi, PackedPos(pi), Hash(PackedPos(pi))>> : pi \in Voxels}
KeyOf(pi)  == IF pi \in Voxels THEN (CHOOSE e \in voxelKeys : e[1] = pi)[2]
              ELSE PackedPos(pi)
HashOf(pi) == IF pi \in Voxels THEN (CHOOSE e \in voxelKeys : e[1] = pi)[3]
              ELSE Hash(PackedPos(pi))

\* hash += step * step; if (hash >= hashTableSize) hash %= hashTableSize;
ProbeNext(hash, step) == (hash + step * step) % hashTableSize

-----------------------------------------------------------------------------
(* Float: an exact rational <<n, d>> with d > 0 in lowest terms, or one of  *)
(* the values a division by zero yields: NaN <<0, 0>>, +Inf <<1, 0>>,       *)
(* -Inf <<-1, 0>>.  Rounding is not modelled.                               *)

RECURSIVE Gcd(_, _)
Gcd(a, b) == IF b = 0 THEN a ELSE Gcd(b, a % b)
Abs(x) == IF x < 0 THEN -x ELSE x
Sign(x) == IF x > 0 THEN 1 ELSE IF x < 0 THEN -1 ELSE 0

Norm(n, d) ==
    IF d = 0 THEN <<Sign(n), 0>>
    ELSE LET g == Gcd(Abs(n), Abs(d)) IN <<Sign(d) * (n \div g), Abs(d) \div g>>

NaN  == <<0, 0>>
Zero == <<0, 1>>
One  == <<1, 1>>
Float(n) == <<n, 1>>
IsNaN(a) == a = NaN

FMul(a, b) == Norm(a[1] * b[1], a[2] * b[2])
FRecip(a)  == IF a[1] < 0 THEN <<-a[2], -a[1]>> ELSE <<a[2], a[1]>>
FDiv(a, b) == FMul(a, FRecip(b))
FAdd(a, b) == IF a[2] = 0 /\ b[2] = 0
              THEN (IF a = b THEN a ELSE NaN)
              ELSE Norm(a[1] * b[2] + b[1] * a[2], a[2] * b[2])
FNeg(a)    == <<-a[1], a[2]>>
FSub(a, b) == FAdd(a, FNeg(b))
FLess(a, b) == ~IsNaN(a) /\ ~IsNaN(b) /\ a # b /\ a[1] * b[2] < b[1] * a[2]
FLeq(a, b)  == ~IsNaN(a) /\ ~IsNaN(b) /\ (a = b \/ a[1] * b[2] < b[1] * a[2])
\* (int) of a finite non-negative Float
TruncInt(a) == a[1] \div a[2]

-----------------------------------------------------------------------------
(* Distribution1D and its two subclasses (sampling.h).  Arrays are          *)
(* functions on 0..n-1, as in the source.                                   *)

Size(f) == Cardinality(DOMAIN f)

\* the running integral: cdf[0] = 0; cdf[i] = cdf[i - 1] + func[i - 1] / n
RECURSIVE StepIntegral(_, _, _)
StepIntegral(f, n, i) ==
    IF i = 0 THEN Zero ELSE FAdd(StepIntegral(f, n, i - 1), FDiv(f[i - 1], Float(n)))

\* Distribution1D(f, n) without the normalisation loop cdf[i] /= funcInt
UnnormalisedDistribution1D(f) ==
    LET n == Size(f)
    IN  [kind |-> "dense", func |-> f, funcInt |-> StepIntegral(f, n, n),
         cdf |-> [i \in 0..n |-> StepIntegral(f, n, i)],
         deleteAfterUsage |-> FALSE]

\* Distribution1D(f, n)
Distribution1D(f) ==
    LET n == Size(f)
        funcInt == StepIntegral(f, n, n)
    IN  [kind |-> "dense", func |-> f, funcInt |-> funcInt,
         cdf |-> [i \in 0..n |->
                    IF i = 0 THEN Zero
                    ELSE IF funcInt = Zero THEN FDiv(Float(i), Float(n))
                    ELSE FDiv(StepIntegral(f, n, i), funcInt)],
         deleteAfterUsage |-> FALSE]

\* Distribution1D::DiscretePDF: func[index] / (funcInt * Distribution1D::Count())
BaseDiscretePDF(d, index) ==
    FDiv(d.func[index], FMul(d.funcInt, Float(Size(d.func))))

\* the keys of a contribution map with kv.second > 0, in the order the map is
\* iterated (unspecified for std::unordered_map; ascending here)
PositiveKeys(contribMap) == {k \in DOMAIN contribMap : FLess(Zero, contribMap[k])}
NthKey(K, j) == CHOOSE k \in K : Cardinality({x \in K : x < k}) = j

\* createSparseDistribution1D with a constructor that keeps uniProb as given
\* when no contribution is positive
createSparseKeepingFloor(contribMap, uniProb, nAll, del) ==
    LET K == PositiveKeys(contribMap)
        sampleMap == [j \in 0..(Cardinality(K) - 1) |-> NthKey(K, j)]
        contrib == [j \in 0..(Cardinality(K) - 1) |-> contribMap[sampleMap[j]]]
        base == Distribution1D(contrib)
    IN  [kind |-> "sparse", func |-> base.func, funcInt |-> base.funcInt, cdf |-> base.cdf,
         backMap |-> [k \in K |-> Cardinality({x \in K : x < k})],
         sampleMap |-> sampleMap,
         uniProb |-> uniProb, uniProbSingle |-> FDiv(uniProb, Float(nAll)), nAll |-> nAll,
         deleteAfterUsage |-> del]

\* SparseDistribution1D::createSparseDistribution1D and the constructor
createSparseDistribution1D(contribMap, uniProb, nAll, del) ==
    LET K == PositiveKeys(contribMap)
        sampleMap == [j \in 0..(Cardinality(K) - 1) |-> NthKey(K, j)]
        contrib == [j \in 0..(Cardinality(K) - 1) |-> contribMap[sampleMap[j]]]
        base == Distribution1D(contrib)
        u == IF Cardinality(K) = 0 THEN One ELSE uniProb
    IN  [kind |-> "sparse", func |-> base.func, funcInt |-> base.funcInt, cdf |-> base.cdf,
         backMap |-> [k \in K |-> Cardinality({x \in K : x < k})],
         sampleMap |-> sampleMap,
         uniProb |-> u, uniProbSingle |-> FDiv(u, Float(nAll)), nAll |-> nAll,
         deleteAfterUsage |-> del]

\* InterpolatedDistribution1D(f, distributions, n) over a base class that
\* leaves the cdf of the weights unnormalised
InterpolatedOverRawWeights(f, distributions) ==
    LET base == UnnormalisedDistribution1D(f)
    IN  [kind |-> "interp", func |-> base.func, funcInt |-> base.funcInt, cdf |-> base.cdf,
         distributions |-> distributions, deleteAfterUsage |-> FALSE]

\* InterpolatedDistribution1D(f, distributions, n): the weights are the func of
\* the base class, the children are kept by pointer
InterpolatedDistribution1D(f, distributions) ==
    LET base == Distribution1D(f)
    IN  [kind |-> "interp", func |-> base.func, funcInt |-> base.funcInt, cdf |-> base.cdf,
         distributions |-> distributions, deleteAfterUsage |-> FALSE]

RECURSIVE Count(_)
Count(d) ==
    CASE d.kind = "dense"  -> Size(d.func)
      [] d.kind = "sparse" -> d.nAll
      [] d.kind = "interp" -> Count(d.distributions[0])

RECURSIVE DiscretePDF(_, _)
RECURSIVE InterpPDFSum(_, _, _)

\* the loop of InterpolatedDistribution1D::DiscretePDF over i < func.size()
InterpPDFSum(d, index, i) ==
    IF i = 0 THEN Zero
    ELSE FAdd(InterpPDFSum(d, index, i - 1),
              FMul(DiscretePDF(d.distributions[i - 1], index),
                   FSub(d.cdf[i], d.cdf[i - 1])))

\* the virtual DiscretePDF(index)
DiscretePDF(d, index) ==
    CASE d.kind = "dense"  -> BaseDiscretePDF(d, index)
      [] d.kind = "sparse" ->
            IF index \in DOMAIN d.backMap
            THEN FAdd(d.uniProbSingle,
                      FMul(BaseDiscretePDF(d, d.backMap[index]), FSub(One, d.uniProb)))
            ELSE d.uniProbSingle
      [] d.kind = "interp" -> InterpPDFSum(d, index, Size(d.func))

\* the sum of DiscretePDF(i) over i in [0, Count())
RECURSIVE PDFSumTo(_, _)
PDFSumTo(d, n) == IF n = 0 THEN Zero ELSE FAdd(PDFSumTo(d, n - 1), DiscretePDF(d, n - 1))
PDFSum(d) == PDFSumTo(d, Count(d))

\* a search that returns the first index whose cdf entry is <= u
FindFirstInterval(size, cdf, u) ==
    LET below == {i \in 0..(size - 2) : FLeq(cdf[i], u)}
    IN  IF below = {} THEN 0 ELSE CHOOSE i \in below : \A k \in below : i <= k

\* FindInterval(size, pred) of pbrt.h with pred(index) = cdf[index] <= u: the
\* largest index in [0, size - 2] whose cdf entry is <= u, 0 if there is none
FindInterval(size, cdf, u) ==
    LET below == {i \in 0..(size - 2) : FLeq(cdf[i], u)}
    IN  IF below = {} THEN 0 ELSE CHOOSE i \in below : \A k \in below : k <= i

\* Distribution1D::SampleDiscrete(u, pdf): [index, pdf]
BaseSampleDiscrete(d, u) ==
    LET offset == FindInterval(Size(d.cdf), d.cdf, u)
    IN  [index |-> offset,
         pdf |-> IF FLess(Zero, d.funcInt)
                 THEN FDiv(d.func[offset], FMul(d.funcInt, Float(Size(d.func))))
                 ELSE Zero]

\* uSub >= 1.0 ? 1.0 - FLT_MIN : uSub; 1.0 - FLT_MIN is 1.0 in Float
ClampBelowOne(uSub) == IF FLeq(One, uSub) THEN One ELSE uSub

\* the virtual SampleDiscrete(u, pdf): [index, pdf].  oob is the value that
\* reading sampleMap outside its bounds yields.
RECURSIVE SampleDiscrete(_, _, _)
SampleDiscrete(d, u, oob) ==
    CASE d.kind = "dense" -> BaseSampleDiscrete(d, u)
      [] d.kind = "sparse" ->
            LET sampledNum ==
                    IF FLess(FSub(One, d.uniProb), u)
                    THEN LET newU == FDiv(FSub(u, FSub(One, d.uniProb)), d.uniProb)
                             n == TruncInt(FMul(newU, Float(d.nAll)))
                         IN  IF n = d.nAll THEN d.nAll - 1 ELSE n
                    ELSE LET newU == FDiv(u, FSub(One, d.uniProb))
                             j == BaseSampleDiscrete(d, newU).index
                         IN  IF j \in DOMAIN d.sampleMap THEN d.sampleMap[j] ELSE oob
            IN  [index |-> sampledNum, pdf |-> DiscretePDF(d, sampledNum)]
      [] d.kind = "interp" ->
            LET offset == FindInterval(Size(d.cdf), d.cdf, u)
                uSub == ClampBelowOne(FDiv(FSub(u, d.cdf[offset]),
                                           FSub(d.cdf[offset + 1], d.cdf[offset])))
                sampledNum == SampleDiscrete(d.distributions[offset], uSub, oob).index
            IN  [index |-> sampledNum, pdf |-> DiscretePDF(d, sampledNum)]

-----------------------------------------------------------------------------
(* SpatialLightDistribution: the lock-free voxel cache.  Every atomic load, *)
(* compare-exchange and store of Lookup is one step of the calling thread.  *)

Threads == 1..NumThreads

IdleLocals == [pc |-> "idle", p |-> <<0, 0, 0>>, pi |-> <<0, 0, 0>>, hash |-> 0,
               step |-> 0, dist |-> nullptr]

\* every variable of the other state machines, at rest
SpatialOff == /\ hashTable = <<>> /\ threads = <<>> /\ heap = <<>>
              /\ returned = {} /\ nLookups = 0
PvOff   == /\ pvTable = <<>> /\ pvTasks = <<>> /\ pvMutex = 0
           /\ pvPhase = "off" /\ pvLookups = {}
MlOff   == ml = <<>>
KdOff   == kd = <<>>
LdOff   == ld = <<>>
DistOff == dist = <<>>
PkOff   == pk = <<>>
KlOff   == kl = <<>>
CbOff   == cb = <<>>

\* the constructor: every slot (invalidPackedPos, nullptr)
SpatialInit ==
    /\ hashTable = [s \in Slots |-> [packedPos |-> invalidPackedPos, distribution |-> nullptr]]
    /\ threads = [t \in Threads |-> IdleLocals]
    /\ heap = <<>>
    /\ returned = {}
    /\ nLookups = 0

\* return dist; from the running Lookup of thread t
Return(t, d, via) ==
    /\ returned' = returned \cup {[n |-> nLookups, p |-> threads[t].p,
                                   pi |-> threads[t].pi, dist |-> d, via |-> via]}
    /\ threads' = [threads EXCEPT ![t] = IdleLocals]

\* Lookup(p) up to the probe loop: the voxel pi of p, packed key, hash,
\* step = 1
LookupBegin(t, p) ==
    /\ threads[t].pc = "idle"
    /\ nLookups < MaxLookups
    /\ nLookups' = nLookups + 1
    /\ threads' = [threads EXCEPT ![t] =
           [pc |-> "probe", p |-> p, pi |-> VoxelOf(p), hash |-> HashOf(VoxelOf(p)),
            step |-> 1, dist |-> nullptr]]
    /\ UNCHANGED <<hashTable, heap, returned>>

\* a probe that takes any allocated entry for the entry of its own voxel
LoadPackedPosAnyKey(t) ==
    /\ threads[t].pc = "probe"
    /\ LET entryPackedPos == hashTable[threads[t].hash].packedPos
       IN  \/ /\ entryPackedPos # invalidPackedPos
              /\ threads' = [threads EXCEPT ![t].pc = "loadDist"]
           \/ /\ entryPackedPos = invalidPackedPos
              /\ threads' = [threads EXCEPT ![t].pc = "cas"]
    /\ UNCHANGED <<hashTable, heap, returned, nLookups>>

\* entryPackedPos = entry.packedPos.load(acquire) and the three-way branch on it
LoadPackedPos(t) ==
    /\ threads[t].pc = "probe"
    /\ LET entryPackedPos == hashTable[threads[t].hash].packedPos
           packedPos == KeyOf(threads[t].pi)
       IN  \/ /\ entryPackedPos = packedPos
              /\ threads' = [threads EXCEPT ![t].pc = "loadDist"]
           \/ /\ entryPackedPos # packedPos
              /\ entryPackedPos # invalidPackedPos
              /\ threads' = [threads EXCEPT
                     ![t].hash = ProbeNext(threads[t].hash, threads[t].step),
                     ![t].step = threads[t].step + 1]
           \/ /\ entryPackedPos = invalidPackedPos
              /\ entryPackedPos # packedPos
              /\ threads' = [threads EXCEPT ![t].pc = "cas"]
    /\ UNCHANGED <<hashTable, heap, returned, nLookups>>

\* a reader that does not wait for the builder and builds the distribution itself
LoadDistributionNoWait(t) ==
    /\ threads[t].pc \in {"loadDist", "spin"}
    /\ LET d == hashTable[threads[t].hash].distribution
       IN  IF d # nullptr
           THEN /\ Return(t, d, "hit")
                /\ UNCHANGED <<hashTable, heap, nLookups>>
           ELSE /\ threads' = [threads EXCEPT ![t].pc = "compute"]
                /\ UNCHANGED <<hashTable, heap, returned, nLookups>>

\* a reader that enters the spin loop before it looks at the pointer
LoadDistributionSpinFirst(t) ==
    /\ threads[t].pc \in {"loadDist", "spin"}
    /\ LET d == hashTable[threads[t].hash].distribution
       IN  \/ /\ threads[t].pc = "spin" /\ d # nullptr
              /\ Return(t, d, "spin")
              /\ UNCHANGED <<hashTable, heap, nLookups>>
           \/ /\ threads[t].pc = "loadDist" \/ d = nullptr
              /\ threads' = [threads EXCEPT ![t].pc = "spin"]
              /\ UNCHANGED <<hashTable, heap, returned, nLookups>>

\* dist = entry.distribution.load(acquire); spin while it is nullptr
LoadDistribution(t) ==
    /\ threads[t].pc \in {"loadDist", "spin"}
    /\ LET d == hashTable[threads[t].hash].distribution
       IN  \/ /\ d # nullptr
              /\ Return(t, d, IF threads[t].pc = "spin" THEN "spin" ELSE "hit")
              /\ UNCHANGED <<hashTable, heap, nLookups>>
           \/ /\ d = nullptr
              /\ threads' = [threads EXCEPT ![t].pc = "spin"]
              /\ UNCHANGED <<hashTable, heap, returned, nLookups>>

\* a compare-exchange whose failure sends the thread on to the next slot
CompareExchangeSkip(t) ==
    /\ threads[t].pc = "cas"
    /\ \/ /\ hashTable[threads[t].hash].packedPos = invalidPackedPos
          /\ hashTable' = [hashTable EXCEPT
                 ![threads[t].hash].packedPos = KeyOf(threads[t].pi)]
          /\ threads' = [threads EXCEPT ![t].pc = "compute"]
       \/ /\ threads' = [threads EXCEPT
                 ![t].pc = "probe",
                 ![t].hash = ProbeNext(threads[t].hash, threads[t].step),
                 ![t].step = threads[t].step + 1]
          /\ UNCHANGED <<hashTable>>
    /\ UNCHANGED <<heap, returned, nLookups>>

\* a plain store of the key in place of the compare-exchange
CompareExchangeBlind(t) ==
    /\ threads[t].pc = "cas"
    /\ hashTable' = [hashTable EXCEPT ![threads[t].hash].packedPos = KeyOf(threads[t].pi)]
    /\ threads' = [threads EXCEPT ![t].pc = "compute"]
    /\ UNCHANGED <<heap, returned, nLookups>>

\* entry.packedPos.compare_exchange_weak(invalid, packedPos): it may fail
\* spuriously; on any failure the loop re-examines the same slot
CompareExchange(t) ==
    /\ threads[t].pc = "cas"
    /\ \/ /\ hashTable[threads[t].hash].packedPos = invalidPackedPos
          /\ hashTable' = [hashTable EXCEPT
                 ![threads[t].hash].packedPos = KeyOf(threads[t].pi)]
                /\ threads' = [threads EXCEPT ![t].pc = "compute"]
       \/ /\ hashTable[threads[t].hash].packedPos = invalidPackedPos
          /\ threads' = [threads EXCEPT ![t].pc = "probe"]
          /\ UNCHANGED <<hashTable>>
       \/ /\ hashTable[threads[t].hash].packedPos # invalidPackedPos
          /\ threads' = [threads EXCEPT ![t].pc = "probe"]
          /\ UNCHANGED <<hashTable>>
    /\ UNCHANGED <<heap, returned, nLookups>>

\* dist = ComputeDistribution(pi): a new Distribution1D built for voxel pi
ComputeDistribution(t) ==
    /\ threads[t].pc = "compute"
    /\ heap' = Append(heap, [voxel |-> threads[t].pi])
    /\ threads' = [threads EXCEPT ![t].pc = "store", ![t].dist = Len(heap) + 1]
    /\ UNCHANGED <<hashTable, returned, nLookups>>

\* the distribution stored in the slot the key hashes to, not the probed one
StoreDistributionAtHome(t) ==
    /\ threads[t].pc = "store"
    /\ hashTable' = [hashTable EXCEPT ![HashOf(threads[t].pi)].distribution = threads[t].dist]
    /\ Return(t, threads[t].dist, "build")
    /\ UNCHANGED <<heap, nLookups>>

\* a builder that returns its distribution without publishing it
ReturnUnpublished(t) ==
    /\ threads[t].pc = "store"
    /\ Return(t, threads[t].dist, "build")
    /\ UNCHANGED <<hashTable, heap, nLookups>>

\* entry.distribution.store(dist, release); return dist
StoreDistribution(t) ==
    /\ threads[t].pc = "store"
    /\ hashTable' = [hashTable EXCEPT ![threads[t].hash].distribution = threads[t].dist]
    /\ Return(t, threads[t].dist, "build")
    /\ UNCHANGED <<heap, nLookups>>

Init == SpatialInit /\ PvOff /\ MlOff /\ KdOff /\ LdOff /\ DistOff /\ PkOff /\ KlOff /\ CbOff

Next ==
    /\ UNCHANGED <<pk, kl, cb, pvTable, pvTasks, pvMutex, pvPhase, pvLookups, ml, kd, ld, dist>>
    /\ \E t \in Threads :
          \/ \E p \in ProbePoints : LookupBegin(t, p)
          \/ LoadPackedPos(t)
          \/ LoadDistribution(t)
          \/ CompareExchange(t)
          \/ ComputeDistribution(t)
          \/ StoreDistribution(t)

Spec == Init /\ [][Next]_vars

-----------------------------------------------------------------------------
(* Claims about the spatial cache *)

NumBuilt(v) == Cardinality({d \in DOMAIN heap : heap[d].voxel = v})
RetPtrs(v)  == {r.dist : r \in {x \in returned : x.pi = v}}

\* C1: under every interleaving of concurrent Lookups, ComputeDistribution is
\* invoked at most once per voxel, exactly once for a voxel some Lookup has
\* returned for, and all Lookups of one voxel return the same pointer.
C1_BuiltOnceSamePointer ==
    \A v \in Voxels :
        /\ NumBuilt(v) <= 1
        /\ Cardinality(RetPtrs(v)) <= 1
        /\ RetPtrs(v) # {} => NumBuilt(v) = 1

\* two threads looked up the same voxel concurrently: one built, one spun
C1_Witness ==
    \E r1, r2 \in returned :
        /\ r1.pi = r2.pi /\ r1.via = "build" /\ r2.via = "spin"

\* C2: once a Lookup of voxel v has returned D, every later Lookup of v
\* returns D: the set of pointers returned for v never changes again.
C2_LaterLookupsSamePointer ==
    [][\A v \in Voxels : RetPtrs(v) # {} => RetPtrs(v)' = RetPtrs(v)]_vars

\* a Lookup built voxel v and returned; then a Lookup began, inserted a voxel
\* with the same home slot and returned; then a third Lookup began and found v
C2_Witness ==
    \E r1, r2, r3 \in returned :
        /\ r1.n = 1 /\ r2.n = 2 /\ r3.n = 3
        /\ r1.pi = r3.pi /\ r1.via = "build" /\ r3.via = "hit"
        /\ r2.pi # r1.pi /\ r2.via = "build" /\ HashOf(r2.pi) = HashOf(r1.pi)

SlotEmpty(s)   == hashTable[s].packedPos = invalidPackedPos /\ hashTable[s].distribution = nullptr
SlotClaimed(s) == hashTable[s].packedPos # invalidPackedPos /\ hashTable[s].distribution = nullptr
SlotReady(s)   == hashTable[s].packedPos # invalidPackedPos /\ hashTable[s].distribution # nullptr

\* the threads between a successful compare-exchange on slot s and their store
Claimants(s) == {t \in Threads : threads[t].pc \in {"compute", "store"} /\ threads[t].hash = s}

\* C3: a slot only moves EMPTY -> CLAIMED -> READY: a key once set never
\* changes, the distribution is written once, into a claimed slot, by the
\* thread whose compare-exchange claimed it, and a READY slot never changes.
C3_SlotMonotonic ==
    [][\A s \in Slots :
          /\ SlotEmpty(s) \/ SlotClaimed(s) \/ SlotReady(s)
          /\ Cardinality(Claimants(s)) = (IF SlotClaimed(s) THEN 1 ELSE 0)
          /\ hashTable[s].packedPos # invalidPackedPos
                => hashTable'[s].packedPos = hashTable[s].packedPos
          /\ SlotReady(s) => hashTable'[s] = hashTable[s]
          /\ hashTable'[s].distribution # hashTable[s].distribution
                => /\ SlotClaimed(s)
                   /\ \E t \in Claimants(s) : /\ threads[t].pc = "store"
                                              /\ threads'[t].pc = "idle"
                                              /\ hashTable'[s].distribution = threads[t].dist
      ]_vars

\* the table holds an empty, a claimed and a ready slot at once, the claimed
\* one reached by probing past the ready one
C3_Witness ==
    \E s1, s2, s3 \in Slots :
        /\ SlotEmpty(s1) /\ SlotClaimed(s2) /\ SlotReady(s3)
        /\ \E t \in Threads : threads[t].hash = s2 /\ threads[t].step > 1

-----------------------------------------------------------------------------
(* PhotonBasedVoxelLightDistribution: initVoxelHashTable, shootPhotons and  *)
(* the non-interpolated Lookup.  The grid and the hash are those of the     *)
(* spatial cache (the code is a copy).  Each ParallelFor iteration of       *)
(* shootPhotons is a task of its own; tasks interleave at the atomic        *)
(* operations and at the mutex.                                             *)

photonCount == 2
NumLights   == 2
\* a task sees spurious compare-exchange failures in its first MaxSpurious probes only
MaxSpurious == 1

Photons == 0..(photonCount - 1)
Lights  == 0..(NumLights - 1)

\* minContributionScale, default 0.001
minContributionScale == <<1, 1000>>

\* beta.sumValues() of the photon with this index: fixed by the scene and the
\* Halton sequence; distinct powers of two, so that a sum tells its terms
PhotonBeta(i) == Pow2(i)

\* pointers Lookup can return
DefaultPtr   == <<"defaultDistrib">>
SlotPtr(s)   == <<"hashTable", s>>

EmptyMap == <<>>

PvIdle == [pc |-> "start", lightNum |-> 0, pi |-> <<0, 0, 0>>, hit |-> FALSE,
           hash |-> 0, step |-> 0]

\* prob(scene.lights.size(), 1): defaultDistrib
defaultDistrib == Distribution1D([l \in Lights |-> One])

\* initVoxelHashTable; HashEntry::distribution is not initialised there
PvInit ==
    /\ pvTable = [s \in Slots |-> [packedPos |-> invalidPackedPos,
                                   lightContrib |-> EmptyMap,
                                   distribution |-> "indeterminate"]]
    /\ pvTasks = [i \in Photons |-> PvIdle]
    /\ pvMutex = 0
    /\ pvPhase = "shoot"
    /\ pvLookups = {}

PvSetTask(i, r) == pvTasks' = [pvTasks EXCEPT ![i] = r]

\* lines 505-538: pdfPos == 0, pdfDir == 0, black Le or black beta return
\* early, a ray that misses the scene falls through: nothing is recorded
PvNoIntersection(i) ==
    /\ pvPhase = "shoot" /\ pvTasks[i].pc = "start"
    /\ PvSetTask(i, [PvIdle EXCEPT !.pc = "done"])
    /\ UNCHANGED <<pvTable, pvMutex, pvPhase, pvLookups>>

\* lines 505-572: the photon of light lightNum hits the scene in voxel pi
PvIntersect(i, lightNum, pi) ==
    /\ pvPhase = "shoot" /\ pvTasks[i].pc = "start"
    /\ PvSetTask(i, [pc |-> "probe", lightNum |-> lightNum, pi |-> pi, hit |-> TRUE,
                     hash |-> HashOf(pi), step |-> 1])
    /\ UNCHANGED <<pvTable, pvMutex, pvPhase, pvLookups>>

PvAdvance(i) ==
    PvSetTask(i, [pvTasks[i] EXCEPT !.pc = "probe",
                                    !.hash = ProbeNext(pvTasks[i].hash, pvTasks[i].step),
                                    !.step = pvTasks[i].step + 1])

\* line 577 and the left operand of || in line 579
PvLoadPackedPos(i) ==
    /\ pvPhase = "shoot" /\ pvTasks[i].pc = "probe"
    /\ \/ /\ pvTable[pvTasks[i].hash].packedPos = KeyOf(pvTasks[i].pi)
          /\ PvSetTask(i, [pvTasks[i] EXCEPT !.pc = "lock"])
       \/ /\ pvTable[pvTasks[i].hash].packedPos # KeyOf(pvTasks[i].pi)
          /\ PvSetTask(i, [pvTasks[i] EXCEPT !.pc = "cas"])
    /\ UNCHANGED <<pvTable, pvMutex, pvPhase, pvLookups>>

\* line 579, compare_exchange_weak(invalid, packedPos); the else branch
\* (lines 588-596) is taken whenever it returns false
PvCompareExchange(i) ==
    /\ pvPhase = "shoot" /\ pvTasks[i].pc = "cas"
    /\ \/ /\ pvTable[pvTasks[i].hash].packedPos = invalidPackedPos
          /\ pvTable' = [pvTable EXCEPT ![pvTasks[i].hash].packedPos = KeyOf(pvTasks[i].pi)]
          /\ PvSetTask(i, [pvTasks[i] EXCEPT !.pc = "lock"])
       \/ /\ pvTable[pvTasks[i].hash].packedPos = invalidPackedPos   \* spurious failure
          /\ pvTasks[i].step <= MaxSpurious
          /\ PvAdvance(i)
          /\ UNCHANGED pvTable
       \/ /\ pvTable[pvTasks[i].hash].packedPos # invalidPackedPos
          /\ PvAdvance(i)
          /\ UNCHANGED pvTable
    /\ UNCHANGED <<pvMutex, pvPhase, pvLookups>>

\* a lock() that does not wait for the holder of the mutex
PvLockFree(i) ==
    /\ pvPhase = "shoot" /\ pvTasks[i].pc = "lock"
    /\ pvMutex' = i + 1
    /\ PvSetTask(i, [pvTasks[i] EXCEPT !.pc = "add"])
    /\ UNCHANGED <<pvTable, pvPhase, pvLookups>>

\* line 584
PvLock(i) ==
    /\ pvPhase = "shoot" /\ pvTasks[i].pc = "lock"
    /\ pvMutex = 0
    /\ pvMutex' = i + 1
    /\ PvSetTask(i, [pvTasks[i] EXCEPT !.pc = "add"])
    /\ UNCHANGED <<pvTable, pvPhase, pvLookups>>

\* std::unordered_map::operator[] followed by +=
MapAdd(map, key, x) ==
    IF key \in DOMAIN map THEN [map EXCEPT ![key] = FAdd(map[key], x)]
    ELSE [k \in DOMAIN map \cup {key} |-> IF k = key THEN FAdd(Zero, x) ELSE map[k]]

\* line 585
PvAccumulate(i) ==
    /\ pvPhase = "shoot" /\ pvTasks[i].pc = "add"
    /\ pvTable' = [pvTable EXCEPT ![pvTasks[i].hash].lightContrib =
                      MapAdd(@, pvTasks[i].lightNum, Float(PhotonBeta(i)))]
    /\ PvSetTask(i, [pvTasks[i] EXCEPT !.pc = "unlock"])
    /\ UNCHANGED <<pvMutex, pvPhase, pvLookups>>

\* lines 586-587; the slot the photon went to stays in the task record
PvUnlock(i) ==
    /\ pvPhase = "shoot" /\ pvTasks[i].pc = "unlock"
    /\ pvMutex' = 0
    /\ PvSetTask(i, [pvTasks[i] EXCEPT !.pc = "done", !.step = 0])
    /\ UNCHANGED <<pvTable, pvPhase, pvLookups>>

\* lines 602-605, after the first ParallelFor has joined; the constructor
\* returns
PvFinalise ==
    /\ pvPhase = "shoot"
    /\ \A i \in Photons : pvTasks[i].pc = "done"
    /\ pvTable' = [s \in Slots |-> [pvTable[s] EXCEPT !.distribution =
                      createSparseDistribution1D(pvTable[s].lightContrib,
                                                 minContributionScale, NumLights, FALSE)]]
    /\ pvPhase' = "render"
    /\ UNCHANGED <<pvTasks, pvMutex, pvLookups>>

\* getDistribution(packedPos, hash, nProbes)
RECURSIVE getDistribution(_, _, _)
getDistribution(packedPos, hash, step) ==
    IF pvTable[hash].packedPos = packedPos THEN SlotPtr(hash)
    ELSE IF pvTable[hash].packedPos = invalidPackedPos THEN DefaultPtr
    ELSE getDistribution(packedPos, ProbeNext(hash, step), step + 1)

\* a Lookup that claims the home slot of its voxel when it finds it empty
PvLookupClaiming(p) ==
    /\ pvPhase = "render"
    /\ LET voxelId == VoxelOf(p)
           hash == HashOf(voxelId)
       IN  /\ pvLookups' = {[p |-> p, pi |-> voxelId,
                             distr |-> getDistribution(KeyOf(voxelId), hash, 1)]}
           /\ pvTable' = IF pvTable[hash].packedPos = invalidPackedPos
                         THEN [pvTable EXCEPT ![hash].packedPos = KeyOf(voxelId)]
                         ELSE pvTable
    /\ UNCHANGED <<pvTasks, pvMutex, pvPhase>>

\* Lookup with interpolateCdf false
PvLookup(p) ==
    /\ pvPhase = "render"
    /\ LET voxelId == VoxelOf(p)
       IN  pvLookups' = {[p |-> p, pi |-> voxelId,
                          distr |-> getDistribution(KeyOf(voxelId), HashOf(voxelId), 1)]}
    /\ UNCHANGED <<pvTable, pvTasks, pvMutex, pvPhase>>

\* what a returned pointer points to
PvDeref(ptr) == IF ptr = DefaultPtr THEN defaultDistrib ELSE pvTable[ptr[2]].distribution

InitPhotonVoxel == SpatialOff /\ PvInit /\ MlOff /\ KdOff /\ LdOff /\ DistOff /\ PkOff /\ KlOff /\ CbOff

NextPhotonVoxel ==
    /\ UNCHANGED <<pk, kl, cb, hashTable, threads, heap, returned, nLookups, ml, kd, ld, dist>>
    /\ \/ \E i \in Photons :
             \/ PvNoIntersection(i)
             \/ \E lightNum \in Lights, pi \in PointVoxels : PvIntersect(i, lightNum, pi)
             \/ PvLoadPackedPos(i)
             \/ PvCompareExchange(i)
             \/ PvLock(i)
             \/ PvAccumulate(i)
             \/ PvUnlock(i)
       \/ PvFinalise
       \/ \E p \in ProbePoints : PvLookup(p)

SpecPhotonVoxel == InitPhotonVoxel /\ [][NextPhotonVoxel]_vars

-----------------------------------------------------------------------------
(* Claims about the photon-voxel preprocess *)

RECURSIVE SumBeta(_)
SumBeta(S) == IF S = {} THEN 0
              ELSE LET i == CHOOSE x \in S : TRUE IN PhotonBeta(i) + SumBeta(S \ {i})

\* the photons that intersected the scene inside voxel v
Landed(v) == {i \in Photons : pvTasks[i].hit /\ pvTasks[i].pi = v}

\* light -> sum of beta over the photons of that light that landed in v
PhotonContrib(v) ==
    [l \in {pvTasks[i].lightNum : i \in Landed(v)} |->
        Float(SumBeta({i \in Landed(v) : pvTasks[i].lightNum = l}))]

\* C4: after the preprocess, the distribution a non-interpolated Lookup of
\* voxel v returns is the default one exactly when no photon landed in v, and
\* otherwise the sparse distribution of the map light -> sum of beta of the
\* photons of that light that landed in v.
C4_EveryPhotonCounted ==
    \A r \in pvLookups :
        IF Landed(r.pi) = {}
        THEN r.distr = DefaultPtr
        ELSE /\ r.distr # DefaultPtr
             /\ PvDeref(r.distr) =
                    createSparseDistribution1D(PhotonContrib(r.pi), minContributionScale,
                                               NumLights, FALSE)

-----------------------------------------------------------------------------
(* The photon clouds of the kd-tree based variants.  shootPhotons is the    *)
(* same text in PhotonBasedKdTreeLightDistribution and in                   *)
(* PhotonBasedMlCdfKdTreeLightDistribution; a ParallelFor task touches only *)
(* cloud.pts[photonIndex], so a task is one step.  fromDir is left out: no  *)
(* modelled code reads it.                                                  *)

cloudPhotonCount == 3
CloudPhotons == 0..(cloudPhotonCount - 1)

\* stands for the largest float; beyond every scene coordinate
FLT_MAX == 1000

\* positions isect.p of the scene
HitPoints == {<<0, 0, 0>>, <<1, 0, 0>>}

\* cloud.pts.resize(photonCount): value-initialised Photon records
ZeroPhoton == [x |-> 0, y |-> 0, z |-> 0, beta |-> Zero, lightNum |-> 0]
ResizedCloud == [i \in CloudPhotons |-> ZeroPhoton]

\* what the photon of a task did: not run yet, or the path the task took
NotShot == [tag |-> "pending"]

\* `return` at pdfPos == 0 || pdfDir == 0 || Le.IsBlack(), or at beta.IsBlack()
ShootEarlyReturn(c, i) ==
    [pts |-> c.pts, shot |-> [c.shot EXCEPT ![i] = [tag |-> "early"]]]

\* the branch scene.Intersect(photonRay, &isect)
ShootIntersect(c, i, lightNum, p) ==
    [pts |-> [c.pts EXCEPT ![i] = [x |-> p[1], y |-> p[2], z |-> p[3],
                                   beta |-> Float(PhotonBeta(i)), lightNum |-> lightNum]],
     shot |-> [c.shot EXCEPT ![i] = [tag |-> "hit", lightNum |-> lightNum, p |-> p]]]

\* its else branch
ShootMiss(c, i) ==
    [pts |-> [c.pts EXCEPT ![i] = [x |-> FLT_MAX, y |-> FLT_MAX, z |-> FLT_MAX,
                                   beta |-> Zero, lightNum |-> -1]],
     shot |-> [c.shot EXCEPT ![i] = [tag |-> "miss"]]]

Pending(c, i) == c.shot[i].tag = "pending"
AllShot(c) == \A i \in CloudPhotons : ~Pending(c, i)

KdInit == kd = [pts |-> ResizedCloud, shot |-> [i \in CloudPhotons |-> NotShot]]

KdEarlyReturn(i) == Pending(kd, i) /\ kd' = ShootEarlyReturn(kd, i)
KdIntersect(i, lightNum, p) == Pending(kd, i) /\ kd' = ShootIntersect(kd, i, lightNum, p)
KdMiss(i) == Pending(kd, i) /\ kd' = ShootMiss(kd, i)

InitShoot == SpatialOff /\ PvOff /\ MlOff /\ KdInit /\ LdOff /\ DistOff /\ PkOff /\ KlOff /\ CbOff

NextShoot ==
    /\ UNCHANGED <<pk, kl, cb, hashTable, threads, heap, returned, nLookups,
                   pvTable, pvTasks, pvMutex, pvPhase, pvLookups, ml, ld, dist>>
    /\ \E i \in CloudPhotons :
          \/ KdEarlyReturn(i)
          \/ \E lightNum \in Lights, p \in HitPoints : KdIntersect(i, lightNum, p)
          \/ KdMiss(i)

SpecShoot == InitShoot /\ [][NextShoot]_vars

\* C7: once its task has run, a slot whose photon recorded no intersection
\* (miss, or early return on degenerate emission) has lightNum = -1, and a
\* slot with lightNum >= 0 holds position, beta and light of an intersection.
C7_EmptySlotsMarked ==
    \A i \in CloudPhotons :
        /\ kd.shot[i].tag \in {"early", "miss"} => kd.pts[i].lightNum = -1
        /\ (kd.shot[i].tag # "pending" /\ kd.pts[i].lightNum >= 0) =>
              /\ kd.shot[i].tag = "hit"
              /\ kd.pts[i] = [x |-> kd.shot[i].p[1], y |-> kd.shot[i].p[2],
                              z |-> kd.shot[i].p[3], beta |-> Float(PhotonBeta(i)),
                              lightNum |-> kd.shot[i].lightNum]

-----------------------------------------------------------------------------
(* PhotonBasedMlCdfKdTreeLightDistribution: the constructor's shootPhotons  *)
(* and buildCluster.  dkm::kmeans_lloyd is outside these sources; its       *)
(* labelling is any assignment of positions to clusters (equal positions    *)
(* get equal labels), its means are the centroids of the labelled points.   *)

cdfCount == 2
Clusters == 0..(cdfCount - 1)

MlInit ==
    ml = [pts |-> ResizedCloud, shot |-> [i \in CloudPhotons |-> NotShot],
          pc |-> "shoot", data |-> <<>>, label |-> <<>>, i |-> 0,
          lightContributions |-> <<>>, cdfCloud |-> <<>>]

MlShot(c) == [ml EXCEPT !.pts = c.pts, !.shot = c.shot]

MlEarlyReturn(i) ==
    ml.pc = "shoot" /\ Pending(ml, i) /\ ml' = MlShot(ShootEarlyReturn(ml, i))
MlIntersect(i, lightNum, p) ==
    ml.pc = "shoot" /\ Pending(ml, i) /\ ml' = MlShot(ShootIntersect(ml, i, lightNum, p))
MlMiss(i) ==
    ml.pc = "shoot" /\ Pending(ml, i) /\ ml' = MlShot(ShootMiss(ml, i))

\* the slots buildCluster copies into data, and the place of slot i in data
Collected(pts) == {i \in CloudPhotons : pts[i].lightNum # -1}
DataIndex(pts, i) == Cardinality({k \in Collected(pts) : k < i})
SlotOfData(pts, j) == CHOOSE i \in Collected(pts) : DataIndex(pts, i) = j

\* lines 838-843
MlCollect ==
    /\ ml.pc = "shoot" /\ AllShot(ml)
    /\ ml' = [ml EXCEPT !.pc = "kmeans",
                        !.data = [j \in 0..(Cardinality(Collected(ml.pts)) - 1) |->
                                     LET q == ml.pts[SlotOfData(ml.pts, j)]
                                     IN  <<q.x, q.y, q.z>>]]

RECURSIVE VecSum(_, _)
VecSum(data, J) ==
    IF J = {} THEN <<0, 0, 0>>
    ELSE LET j == CHOOSE x \in J : TRUE
             r == VecSum(data, J \ {j})
         IN  <<data[j][1] + r[1], data[j][2] + r[2], data[j][3] + r[3]>>

\* lines 845-848: cluster_data = (means, labels)
MlKMeans(assign) ==
    /\ ml.pc = "kmeans"
    /\ ml' = [ml EXCEPT !.pc = "loop", !.i = 0,
                        !.label = [j \in DOMAIN ml.data |-> assign[ml.data[j]]],
                        !.lightContributions = [c \in Clusters |-> EmptyMap]]

\* lines 850-854, one iteration
MlAddContribution ==
    /\ ml.pc = "loop" /\ ml.i < Size(ml.data)
    /\ ml' = [ml EXCEPT !.i = ml.i + 1,
                        !.lightContributions[ml.label[ml.i]] =
                            MapAdd(@, ml.pts[ml.i].lightNum, ml.pts[ml.i].beta)]

\* lines 857-866
MlBuildCdfCloud ==
    /\ ml.pc = "loop" /\ ml.i = Size(ml.data)
    /\ ml' = [ml EXCEPT !.pc = "built",
                        !.cdfCloud = [c \in Clusters |->
                            LET J == {j \in DOMAIN ml.data : ml.label[j] = c}
                            IN  [n |-> Cardinality(J), sum |-> VecSum(ml.data, J),
                                 distr |-> createSparseDistribution1D(
                                               ml.lightContributions[c],
                                               minContributionScale, NumLights, FALSE)]]]

InitMlCluster == SpatialOff /\ PvOff /\ MlInit /\ KdOff /\ LdOff /\ DistOff /\ PkOff /\ KlOff /\ CbOff

NextMlCluster ==
    /\ UNCHANGED <<pk, kl, cb, hashTable, threads, heap, returned, nLookups,
                   pvTable, pvTasks, pvMutex, pvPhase, pvLookups, kd, ld, dist>>
    /\ \/ \E i \in CloudPhotons :
             \/ MlEarlyReturn(i)
             \/ \E lightNum \in Lights, p \in HitPoints : MlIntersect(i, lightNum, p)
             \/ MlMiss(i)
       \/ MlCollect
       \/ \E assign \in [HitPoints -> Clusters] : MlKMeans(assign)
       \/ MlAddContribution
       \/ MlBuildCdfCloud

SpecMlCluster == InitMlCluster /\ [][NextMlCluster]_vars

\* the photons that intersected and whose position k-means labelled c
Clustered(c) ==
    {i \in CloudPhotons : /\ ml.shot[i].tag = "hit"
                          /\ ml.label[DataIndex(ml.pts, i)] = c}

\* light -> sum of beta over the photons of that light in cluster c
ClusterContrib(c) ==
    [l \in {ml.shot[i].lightNum : i \in Clustered(c)} |->
        Float(SumBeta({i \in Clustered(c) : ml.shot[i].lightNum = l}))]

\* C5: after buildCluster, the distribution of every cluster is the sparse
\* distribution of the map light -> sum of beta over the intersecting photons
\* k-means labelled with that cluster: each such photon counted once under
\* its own light, nothing else added.
C5_OwnContributionPerLabel ==
    ml.pc = "built" =>
        \A c \in Clusters :
            ml.cdfCloud[c].distr =
                createSparseDistribution1D(ClusterContrib(c), minContributionScale,
                                           NumLights, FALSE)

-----------------------------------------------------------------------------
(* CreateLightSampleDistribution and Lookup of the object it returns.  The  *)
(* preprocess of the photon variants is seen through what Lookup reads: the *)
(* number of entries of the cluster cloud.                                  *)

MaxLights   == 4
MaxClusters == 2
knCdf       == 2

\* values of "lightsamplestrategy": the seven names, a name the factory does
\* not know, and no value at all
NoValue  == "<absent>"
Strategies == {"uniform", "power", "spatial", "photonvoxel", "photontree",
               "mlcdftree", "cdftree"}
StrategyInputs == Strategies \cup {"bogus", NoValue}
Interpolations == {"shepard", "modshep", "kreg", "adkreg", "none"}

\* ParamSet::FindOneString(name, default)
FindOneString(given, default) == IF given = NoValue THEN default ELSE given

\* two points p of the scene, in different voxels
LookupPoints == {<<0, 0, 0>>, <<OffsetDen, OffsetDen, 0>>}

\* the factory's chain with cdftree and mlcdftree exchanged
ExchangedClassFor(name, nLights) ==
    IF name = "uniform" \/ nLights = 1 THEN "UniformLightDistribution"
    ELSE IF name = "power" THEN "PowerLightDistribution"
    ELSE IF name = "spatial" THEN "SpatialLightDistribution"
    ELSE IF name = "photonvoxel" THEN "PhotonBasedVoxelLightDistribution"
    ELSE IF name = "photontree" THEN "PhotonBasedKdTreeLightDistribution"
    ELSE IF name = "mlcdftree" THEN "PhotonBasedCdfKdTreeLightDistribution"
    ELSE IF name = "cdftree" THEN "PhotonBasedMlCdfKdTreeLightDistribution"
    ELSE "SpatialLightDistribution"

\* the if / else-if chain of the factory: the class it instantiates
ClassFor(name, nLights) ==
    IF name = "uniform" \/ nLights = 1 THEN "UniformLightDistribution"
    ELSE IF name = "power" THEN "PowerLightDistribution"
    ELSE IF name = "spatial" THEN "SpatialLightDistribution"
    ELSE IF name = "photonvoxel" THEN "PhotonBasedVoxelLightDistribution"
    ELSE IF name = "photontree" THEN "PhotonBasedKdTreeLightDistribution"
    ELSE IF name = "mlcdftree" THEN "PhotonBasedMlCdfKdTreeLightDistribution"
    ELSE IF name = "cdftree" THEN "PhotonBasedCdfKdTreeLightDistribution"
    ELSE "SpatialLightDistribution"

\* the Error(...) of the last branch
ErrorsFor(name, nLights) ==
    IF name = "uniform" \/ nLights = 1 \/ name \in Strategies THEN <<>>
    ELSE <<[text |-> "Light sample distribution type unknown. Using spatial.",
            name |-> name]>>

\* the power of light l, as ComputeLightPowerDistribution sees it
LightPower(l) == Float(l + 1)

\* prob(scene.lights.size(), 1) with one entry raised
SkewedLightDistribution(nLights) ==
    Distribution1D([l \in 0..(nLights - 1) |-> IF l = 0 THEN Float(2) ELSE One])

\* UniformLightDistribution::UniformLightDistribution: distrib
UniformLightDistribution(nLights) == Distribution1D([l \in 0..(nLights - 1) |-> One])

\* PowerLightDistribution::PowerLightDistribution: distrib
PowerLightDistribution(nLights) == Distribution1D([l \in 0..(nLights - 1) |-> LightPower(l)])

\* a null Distribution1D pointer
NoDistrib == <<>>

\* the member distrib of the object, for the two classes that have one
DistribOf(class, nLights) ==
    CASE class = "UniformLightDistribution" -> UniformLightDistribution(nLights)
      [] class = "PowerLightDistribution"   -> PowerLightDistribution(nLights)
      [] OTHER -> NoDistrib

\* entries of cdfCloud after the constructor: cdfCount for mlcdftree, the
\* clusters above photonThreshold for cdftree
CloudSizes(class) ==
    CASE class = "PhotonBasedMlCdfKdTreeLightDistribution" -> {cdfCount}
      [] class = "PhotonBasedCdfKdTreeLightDistribution"   -> 0..MaxClusters
      [] OTHER -> {0}

LdInit == ld = [pc |-> "start", params |-> <<>>, class |-> "", log |-> <<>>,
                distrib |-> NoDistrib, cdfCloudSize |-> 0, results |-> {},
                mem |-> <<>>, last |-> <<>>, n |-> 0]

\* a Distribution1D object on the heap, at <<where, number>>: who holds it,
\* its deleteAfterUsage,
\* the distributions it points to, and how often it has been deleted
Object(owned, del, children) ==
    [owned |-> owned, deleteAfterUsage |-> del, children |-> children, freed |-> 0]

\* the distributions the constructor of a class allocates and keeps: distrib,
\* defaultDistrib and the slot distributions, the cluster distributions
OwnedBy(class, cloudSize) ==
    CASE class \in {"UniformLightDistribution", "PowerLightDistribution"} ->
            [ptr \in {<<"distrib", 0>>} |->
                Object(TRUE, Distribution1D([l \in {0} |-> One]).deleteAfterUsage, {})]
      [] class = "PhotonBasedVoxelLightDistribution" ->
            [ptr \in {<<"defaultDistrib", 0>>} \cup {<<"hashTable", s>> : s \in Slots} |->
                IF ptr = <<"defaultDistrib", 0>>
                THEN Object(TRUE, Distribution1D([l \in {0} |-> One]).deleteAfterUsage, {})
                ELSE Object(TRUE,
                            createSparseDistribution1D(EmptyMap, minContributionScale, 1,
                                                       FALSE).deleteAfterUsage, {})]
      [] class \in {"PhotonBasedMlCdfKdTreeLightDistribution",
                    "PhotonBasedCdfKdTreeLightDistribution"} ->
            [ptr \in {<<"cdfCloud", c>> : c \in 0..(cloudSize - 1)} |->
                Object(TRUE,
                       createSparseDistribution1D(EmptyMap, minContributionScale, 1,
                                                  FALSE).deleteAfterUsage, {})]
      [] OTHER -> <<>>

\* CreateLightSampleDistribution(params, scene)
Create(given, nLights, knn, interpolation, cloudSize) ==
    LET name == FindOneString(given, "spatial") IN
    /\ ld.pc = "start"
    /\ cloudSize \in CloudSizes(ClassFor(name, nLights))
    /\ ld' = [ld EXCEPT !.pc = "built",
                        !.params = [lightsamplestrategy |-> given, nLights |-> nLights,
                                    knn |-> knn, interpolation |-> interpolation],
                        !.class = ClassFor(name, nLights),
                        !.log = ErrorsFor(name, nLights),
                        !.distrib = DistribOf(ClassFor(name, nLights), nLights),
                        !.cdfCloudSize = cloudSize,
                        !.mem = OwnedBy(ClassFor(name, nLights), cloudSize)]

\* outcomes of a Lookup
Returned(ptr) == [status |-> "returned", ptr |-> ptr]
Fatal(check)  == [status |-> "fatal", check |-> check]

\* kdtree.knnSearch: the number of neighbours found
KnnCount(k, nPoints) == Min(k, nPoints)

\* new InterpolatedDistribution1D(&influence[0], &distributions[0], n)
NewInterpolated(n) ==
    IF n > 0 THEN Returned(<<"new InterpolatedDistribution1D", n>>)
    ELSE Fatal("CHECK(n > 0)")

\* UniformLightDistribution::Lookup, PowerLightDistribution::Lookup
MemberLookup(p) == Returned(<<"distrib">>)

\* SpatialLightDistribution::Lookup: the distribution of the voxel of p
SpatialLookupResult(p) == Returned(<<"hashTable", VoxelOf(p)>>)

\* PhotonBasedVoxelLightDistribution::Lookup, interpolateCdf at its default:
\* the voxel of p first, others pushed after it
PhotonVoxelLookupResult(p) ==
    Returned(<<"new InterpolatedDistribution1D", "voxel and neighbours", VoxelOf(p)>>)

\* PhotonBasedKdTreeLightDistribution::Lookup
PhotonTreeLookupResult(p) == Returned(<<"new SparseDistribution1D">>)

\* PhotonBasedMlCdfKdTreeLightDistribution::Lookup
MlCdfLookupResult(p) ==
    IF ld.params.knn
    THEN NewInterpolated(KnnCount(knCdf, ld.cdfCloudSize))
    ELSE Fatal("CHECK(0)")

\* PhotonBasedCdfKdTreeLightDistribution::Lookup
CdfLookupResult(p) ==
    IF ld.params.knn
    THEN NewInterpolated(IF ld.params.interpolation \in {"shepard", "modshep", "kreg", "adkreg"}
                         THEN KnnCount(knCdf, ld.cdfCloudSize)
                         ELSE 0)
    ELSE Fatal("CHECK(0)")

\* getInterpolatedDistribution: the direction of the neighbour on axis i, 0
\* when offsetInVoxel = fmod(offset[i] * nVoxels[i], 1) - 0.5 is 0
NeighbourStep(p, i) ==
    LET num == p[i] * nVoxels[i]
        fmod == IF num >= 0 THEN num % OffsetDen ELSE -((-num) % OffsetDen)
        twice == 2 * fmod - OffsetDen
    IN  IF twice = 0 THEN 0 ELSE IF twice > 0 THEN 1 ELSE -1

\* the inner loop over voxelIds[0..size) for axis i: ids of neighbours inside
\* the grid are pushed to the back
RECURSIVE PushNeighbours(_, _, _, _)
PushNeighbours(voxelIds, size, i, step) ==
    IF size = 0 THEN voxelIds
    ELSE LET done == PushNeighbours(voxelIds, size - 1, i, step)
             newId == [voxelIds[size] EXCEPT ![i] = @ + step]
         IN  IF newId[i] >= 0 /\ newId[i] < nVoxels[i] THEN Append(done, newId) ELSE done

RECURSIVE InterpolationVoxels(_, _)
InterpolationVoxels(p, axes) ==
    IF axes = 0 THEN <<VoxelOf(p)>>
    ELSE LET voxelIds == InterpolationVoxels(p, axes - 1)
         IN  IF NeighbourStep(p, axes) = 0 THEN voxelIds
             ELSE PushNeighbours(voxelIds, Len(voxelIds), axes, NeighbourStep(p, axes))

\* the number of a voxel in the grid
VoxelNumber(pi) == (pi[1] * nVoxels[2] + pi[2]) * nVoxels[3] + pi[3]

\* the object a Lookup call allocates: the new distribution of a voxel, kept
\* in the hash table, or the distribution built for this call and returned
Allocated(class, p, children) ==
    CASE class = "SpatialLightDistribution" ->
            Object(TRUE, Distribution1D([l \in {0} |-> One]).deleteAfterUsage, {})
      [] class = "PhotonBasedKdTreeLightDistribution" ->
            Object(FALSE,
                   createSparseDistribution1D(EmptyMap, minContributionScale, 1,
                                              TRUE).deleteAfterUsage, {})
      [] OTHER -> \* iDistr->deleteAfterUsage = true
            Object(FALSE, TRUE, children)

\* deleteMe() without the test of deleteAfterUsage
deleteAlways(obj) == [obj EXCEPT !.freed = @ + 1]

\* Distribution1D::deleteMe: if (deleteAfterUsage) delete this; no destructor
\* deletes the children
deleteMe(obj) == IF obj.deleteAfterUsage THEN [obj EXCEPT !.freed = @ + 1] ELSE obj

\* the caller's distrib->deleteMe() on the result of its Lookup
DeleteMe ==
    /\ ld.pc = "built"
    /\ ld.last # <<>>
    /\ ld' = [ld EXCEPT !.mem = [@ EXCEPT ![ld.last] = deleteMe(@)], !.last = <<>>]

\* the distributions pushed into distributions by a Lookup: those
\* getDistribution finds for the voxel of p and its neighbours (their slots
\* when the voxels hold photons, else defaultDistrib), or those of the
\* clusters knnSearch returns
ChildrenOf(class, p, photons) ==
    CASE class = "PhotonBasedVoxelLightDistribution" ->
            IF photons
            THEN LET voxelIds == InterpolationVoxels(p, 3)
                 IN  {<<"hashTable", HashOf(voxelIds[k])>> : k \in DOMAIN voxelIds}
            ELSE {<<"defaultDistrib", 0>>}
      [] class \in {"PhotonBasedMlCdfKdTreeLightDistribution",
                    "PhotonBasedCdfKdTreeLightDistribution"} ->
            {<<"cdfCloud", c>> : c \in 0..(KnnCount(knCdf, ld.cdfCloudSize) - 1)}
      [] OTHER -> {}

\* the virtual call lightDistribution->Lookup(p); a failed CHECK aborts
Lookup(p, photons) ==
    /\ ld.pc = "built"
    /\ ld.last = <<>>
    /\ ld.n < MaxLookups
    /\ LET children == ChildrenOf(ld.class, p, photons)
           outcome ==
             CASE ld.class = "UniformLightDistribution" -> MemberLookup(p)
               [] ld.class = "PowerLightDistribution" -> MemberLookup(p)
               [] ld.class = "SpatialLightDistribution" -> SpatialLookupResult(p)
               [] ld.class = "PhotonBasedVoxelLightDistribution" -> PhotonVoxelLookupResult(p)
               [] ld.class = "PhotonBasedKdTreeLightDistribution" -> PhotonTreeLookupResult(p)
               [] ld.class = "PhotonBasedMlCdfKdTreeLightDistribution" -> MlCdfLookupResult(p)
               [] ld.class = "PhotonBasedCdfKdTreeLightDistribution" -> CdfLookupResult(p)
           \* the object returned: a member, the cached one of the voxel, or
           \* the one this call allocates
           ptr == IF outcome.status = "fatal" THEN <<>>
                  ELSE IF ld.class \in {"UniformLightDistribution", "PowerLightDistribution"}
                       THEN <<"distrib", 0>>
                  ELSE IF ld.class = "SpatialLightDistribution"
                       THEN <<"hashTable", VoxelNumber(VoxelOf(p))>>
                  ELSE <<"new", ld.n>>
       IN  ld' = [ld EXCEPT !.results = @ \cup {[p |-> p, outcome |-> outcome]},
                            !.pc = IF outcome.status = "fatal" THEN "aborted" ELSE "built",
                            !.n = @ + 1,
                            !.last = ptr,
                            !.mem = IF ptr = <<>> \/ ptr \in DOMAIN ld.mem THEN @
                                    ELSE [q \in DOMAIN @ \cup {ptr} |->
                                            IF q = ptr THEN Allocated(ld.class, p, children)
                                            ELSE @[q]]]

\* what a pointer returned by Lookup points to, where the model holds it
LdDeref(ptr) == IF ptr = <<"distrib">> THEN ld.distrib ELSE NoDistrib

InitFactory == SpatialOff /\ PvOff /\ MlOff /\ KdOff /\ LdInit /\ DistOff /\ PkOff /\ KlOff /\ CbOff

NextFactory ==
    /\ UNCHANGED <<pk, kl, cb, hashTable, threads, heap, returned, nLookups,
                   pvTable, pvTasks, pvMutex, pvPhase, pvLookups, ml, kd, dist>>
    /\ \/ \E given \in StrategyInputs, nLights \in 1..MaxLights, knn \in BOOLEAN,
             interpolation \in Interpolations, cloudSize \in 0..MaxClusters :
             Create(given, nLights, knn, interpolation, cloudSize)
       \/ \E p \in LookupPoints, photons \in BOOLEAN : Lookup(p, photons)
       \/ DeleteMe

SpecFactory == InitFactory /\ [][NextFactory]_vars

-----------------------------------------------------------------------------
(* Claims about the factory *)

\* C6: whatever the parameters, every Lookup of the object the factory built
\* returns a non-null distribution; no Lookup ends in a fatal assertion.
C6_LookupNeverFails ==
    \A r \in ld.results : r.outcome.status = "returned" /\ r.outcome.ptr # NoDistrib

\* the class each strategy name stands for
NamedClass ==
    [uniform |-> "UniformLightDistribution", power |-> "PowerLightDistribution",
     spatial |-> "SpatialLightDistribution",
     photonvoxel |-> "PhotonBasedVoxelLightDistribution",
     photontree |-> "PhotonBasedKdTreeLightDistribution",
     cdftree |-> "PhotonBasedCdfKdTreeLightDistribution",
     mlcdftree |-> "PhotonBasedMlCdfKdTreeLightDistribution"]

\* C8: with at least two lights the factory returns the class named by
\* lightsamplestrategy and reports nothing; without the key it returns the
\* spatial class; for any other string it reports that string and returns
\* the spatial class.
C8_NamedVariantOrSpatial ==
    (ld.pc # "start" /\ ld.params.nLights >= 2) =>
        LET given == ld.params.lightsamplestrategy IN
        IF given \in Strategies THEN ld.class = NamedClass[given] /\ ld.log = <<>>
        ELSE IF given = NoValue THEN ld.class = "SpatialLightDistribution" /\ ld.log = <<>>
        ELSE /\ ld.class = "SpatialLightDistribution"
             /\ Len(ld.log) = 1 /\ ld.log[1].name = given

C8_Witness ==
    /\ ld.pc = "built" /\ ld.params.nLights = 2
    /\ ld.params.lightsamplestrategy = "bogus"
    /\ ld.class = "SpatialLightDistribution" /\ ld.log # <<>>
    /\ \E r \in ld.results : r.outcome.status = "returned"

\* C9: with strategy uniform, or with a single light whatever the strategy,
\* every Lookup returns the same object whatever the point, and that
\* object's DiscretePDF is 1/n for each of the n lights.
C9_UniformSameObject ==
    (ld.pc # "start" /\ (ld.params.lightsamplestrategy = "uniform" \/ ld.params.nLights = 1)) =>
        /\ \A r1, r2 \in ld.results :
              r1.outcome.status = "returned" /\ r1.outcome = r2.outcome
        /\ \A r \in ld.results :
              LET d == LdDeref(r.outcome.ptr) IN
              /\ d # NoDistrib
              /\ Count(d) = ld.params.nLights
              /\ \A i \in 0..(ld.params.nLights - 1) :
                    DiscretePDF(d, i) = FDiv(One, Float(ld.params.nLights))

C9_Witness ==
    /\ ld.pc = "built"
    /\ ld.params.lightsamplestrategy = "uniform" /\ ld.params.nLights = 4
    /\ \E r1, r2 \in ld.results :
          /\ r1.p # r2.p
          /\ DiscretePDF(LdDeref(r1.outcome.ptr), 3) = <<1, 4>>

-----------------------------------------------------------------------------
(* The three representations, built from small inputs: a Distribution1D     *)
(* over n values, a SparseDistribution1D over a contribution map, and an    *)
(* InterpolatedDistribution1D over one or two children of equal Count().    *)

MaxLen == 3

\* values of func, and of the entries of a contribution map
FuncValues    == {Zero, One, Float(2)}
ContribValues == {Zero, One, Float(3)}
\* uniProb
UniProbs      == {Zero, <<1, 5>>, One}
\* influence weights
Influences    == {Zero, One, Float(3), <<1, 4>>, <<3, 4>>}

\* contribution maps over the lights 0..nAll-1: any subset of keys
ContribMaps(nAll) ==
    UNION {[K -> ContribValues] : K \in SUBSET (0..(nAll - 1))}

\* photons of two lights out of ten: contributions 4 of light 2, 1 of light 5
PhotonLights == [l \in {2, 5} |-> IF l = 2 THEN Float(4) ELSE One]

IsLeaf(d) == d # NoDistrib /\ d.kind \in {"dense", "sparse"}

\* distributions a second child is taken from: the default distribution of
\* the photon variants, a dense one with all weight on the last light, and a
\* sparse one with a single photon light
Partners(n) ==
    {Distribution1D([l \in 0..(n - 1) |-> One]),
     Distribution1D([l \in 0..(n - 1) |-> IF l = n - 1 THEN One ELSE Zero]),
     createSparseDistribution1D([l \in {0} |-> One], <<1, 5>>, n, FALSE)}

\* d is the distribution built last, args what it was constructed from
DistInit == dist = [d |-> NoDistrib, args |-> <<>>]

\* new Distribution1D(f, n)
NewDistribution1D(f) ==
    /\ dist.d = NoDistrib
    /\ dist' = [d |-> Distribution1D(f), args |-> <<f>>]

\* SparseDistribution1D::createSparseDistribution1D(contribMap, uniProb, nAll)
NewSparseDistribution1D(contribMap, uniProb, nAll) ==
    /\ dist.d = NoDistrib
    /\ dist' = [d |-> createSparseDistribution1D(contribMap, uniProb, nAll, TRUE),
                args |-> <<contribMap, uniProb, nAll>>]

\* new InterpolatedDistribution1D(f, distributions, n) over the distribution
\* built last and, for n = 2, one more of the same Count()
NewInterpolatedDistribution1D(f, others) ==
    /\ IsLeaf(dist.d)
    /\ Size(f) = 1 + Size(others)
    /\ \A j \in DOMAIN others : others[j] \in Partners(Count(dist.d))
    /\ dist' = [d |-> InterpolatedDistribution1D(
                          f, [j \in DOMAIN f |-> IF j = 0 THEN dist.d ELSE others[j - 1]]),
                args |-> <<f>>]

InitDistr == SpatialOff /\ PvOff /\ MlOff /\ KdOff /\ LdOff /\ DistInit /\ PkOff /\ KlOff /\ CbOff

NextDistr ==
    /\ UNCHANGED <<pk, kl, cb, hashTable, threads, heap, returned, nLookups,
                   pvTable, pvTasks, pvMutex, pvPhase, pvLookups, ml, kd, ld>>
    /\ \/ \E n \in 1..MaxLen : \E f \in [0..(n - 1) -> FuncValues] : NewDistribution1D(f)
       \/ \E nAll \in 1..MaxLen : \E contribMap \in ContribMaps(nAll), uniProb \in UniProbs :
             NewSparseDistribution1D(contribMap, uniProb, nAll)
       \/ NewSparseDistribution1D(PhotonLights, <<1, 5>>, 10)
       \/ \E m \in 1..2 : \E f \in [0..(m - 1) -> Influences] :
             \E others \in [0..(m - 2) -> Partners(IF IsLeaf(dist.d) THEN Count(dist.d) ELSE 1)] :
                NewInterpolatedDistribution1D(f, others)

SpecDistr == InitDistr /\ [][NextDistr]_vars

-----------------------------------------------------------------------------
(* Claims about the distributions *)

\* C10: for every distribution of the three representations, the sum of
\* DiscretePDF(i) over i in [0, Count()) is 1, a dense distribution whose
\* values are all zero and a sparse one without positive entry included.
C10_PDFSumsToOne ==
    dist.d # NoDistrib => PDFSum(dist.d) = One

\* the values of u at which SampleDiscrete(u) can change its result
RECURSIVE Breaks(_)
Breaks(d) ==
    LET own == {d.cdf[i] : i \in DOMAIN d.cdf}
        more ==
            CASE d.kind = "dense" -> {}
              [] d.kind = "sparse" ->
                    {FSub(One, d.uniProb)}
                    \cup {FMul(c, FSub(One, d.uniProb)) : c \in own}
                    \cup {FAdd(FSub(One, d.uniProb),
                               FMul(d.uniProb, FDiv(Float(j), Float(d.nAll)))) : j \in 0..d.nAll}
              [] d.kind = "interp" ->
                    UNION {{FAdd(d.cdf[j], FMul(b, FSub(d.cdf[j + 1], d.cdf[j]))) :
                               b \in Breaks(d.distributions[j])} : j \in DOMAIN d.func}
    IN  {b \in own \cup more \cup {Zero, One} : FLeq(Zero, b) /\ FLeq(b, One)}

\* the cells [lo, hi) of [0, 1) between neighbouring values of Breaks(d)
Cells(d) ==
    {c \in Breaks(d) \X Breaks(d) :
        /\ FLess(c[1], c[2])
        /\ \A b \in Breaks(d) : ~(FLess(c[1], b) /\ FLess(b, c[2]))}
Mid(c) == FDiv(FAdd(c[1], c[2]), Float(2))

RECURSIVE TotalLength(_)
TotalLength(cells) ==
    IF cells = {} THEN Zero
    ELSE LET c == CHOOSE x \in cells : TRUE
         IN  FAdd(FSub(c[2], c[1]), TotalLength(cells \ {c}))

\* the total length of the set of u in [0, 1) with SampleDiscrete(u) = i
SampledLength(d, i) ==
    TotalLength({c \in Cells(d) : SampleDiscrete(d, Mid(c), 0).index = i})

\* C11: for each of the three representations and every index i, the total
\* length of the set of u in [0, 1) for which SampleDiscrete(u) returns i is
\* DiscretePDF(i), and the pdf SampleDiscrete reports for a returned index is
\* DiscretePDF of that index.
C11_SampleMatchesPDF ==
    dist.d # NoDistrib =>
        /\ \A i \in 0..(Count(dist.d) - 1) :
              SampledLength(dist.d, i) = DiscretePDF(dist.d, i)
        /\ \A c \in Cells(dist.d) :
              LET s == SampleDiscrete(dist.d, Mid(c), 0)
              IN  s.pdf = DiscretePDF(dist.d, s.index)

\* the sum of the first n values of f
RECURSIVE SumTo(_, _)
SumTo(f, n) == IF n = 0 THEN Zero ELSE FAdd(SumTo(f, n - 1), f[n - 1])

\* a Distribution1D over n >= 1 non-negative values with positive sum
PositiveDense(d) ==
    /\ d # NoDistrib
    /\ d.kind = "dense"
    /\ Size(d.func) >= 1
    /\ FLess(Zero, SumTo(d.func, Size(d.func)))

\* C12: for every Distribution1D built from n >= 1 non-negative values with
\* positive sum, cdf[0] = 0, cdf[n] = 1, cdf is non-decreasing and
\* cdf[i + 1] - cdf[i] = func[i] / (sum of func) for every i.
C12_CdfNormalised ==
    PositiveDense(dist.d) =>
        LET d == dist.d
            n == Size(d.func)
        IN  /\ d.cdf[0] = Zero
            /\ d.cdf[n] = One
            /\ \A i \in 0..(n - 1) :
                  /\ FLeq(d.cdf[i], d.cdf[i + 1])
                  /\ FSub(d.cdf[i + 1], d.cdf[i]) = FDiv(d.func[i], SumTo(d.func, n))

\* a Distribution1D over three values, one of them zero and two different
C12_Witness ==
    /\ PositiveDense(dist.d)
    /\ Size(dist.d.func) = MaxLen
    /\ \E i, j, k \in DOMAIN dist.d.func :
          /\ dist.d.func[i] = Zero
          /\ FLess(Zero, dist.d.func[j])
          /\ FLess(dist.d.func[j], dist.d.func[k])

\* the sum of the positive entries of a contribution map
RECURSIVE SumPositive(_, _)
SumPositive(contribMap, keys) ==
    IF keys = {} THEN Zero
    ELSE LET k == CHOOSE x \in keys : TRUE
         IN  FAdd(contribMap[k], SumPositive(contribMap, keys \ {k}))

\* u / n_all + (1 - u) * c_i / (sum of positive contributions) for an index
\* with positive contribution, u / n_all for every other index
SparseMass(contribMap, u, nAll, i) ==
    LET K == PositiveKeys(contribMap)
    IN  IF i \in K
        THEN FAdd(FDiv(u, Float(nAll)),
                  FMul(FSub(One, u), FDiv(contribMap[i], SumPositive(contribMap, K))))
        ELSE FDiv(u, Float(nAll))

IsSparse(d) == d # NoDistrib /\ d.kind = "sparse"

\* the floor in effect: 1 when no contribution is positive, else the one given
EffectiveFloor(contribMap, u) == IF PositiveKeys(contribMap) = {} THEN One ELSE u

\* C13 as stated: for a SparseDistribution1D built from a contribution map,
\* floor u and size n_all, DiscretePDF(i) = u/n_all + (1-u) * c_i / (sum of
\* positive contributions) for an index with positive contribution c_i and
\* u/n_all for every other index, so DiscretePDF(i) >= uni_prob/n_all; the
\* map {2:4, 5:1} with n_all = 10, u = 0.2 gives 0.66, 0.18 and 0.02 elsewhere.
C13_SparsePDFWithGivenFloor ==
    IsSparse(dist.d) =>
        \A i \in 0..(dist.args[3] - 1) :
            /\ DiscretePDF(dist.d, i) = SparseMass(dist.args[1], dist.args[2], dist.args[3], i)
            /\ FLeq(FDiv(dist.d.uniProb, Float(dist.args[3])), DiscretePDF(dist.d, i))

\* C13 amended: the same with u the floor in effect, which is 1 instead of
\* the floor given when the map has no positive contribution.
C13_SparsePDF ==
    IsSparse(dist.d) =>
        LET u == EffectiveFloor(dist.args[1], dist.args[2])
        IN  /\ \A i \in 0..(dist.args[3] - 1) :
                  /\ DiscretePDF(dist.d, i) = SparseMass(dist.args[1], u, dist.args[3], i)
                  /\ FLeq(FDiv(dist.d.uniProb, Float(dist.args[3])), DiscretePDF(dist.d, i))
            /\ dist.args = <<PhotonLights, <<1, 5>>, 10>> =>
                  \A i \in 0..9 :
                      DiscretePDF(dist.d, i) = CASE i = 2 -> <<33, 50>>
                                                 [] i = 5 -> <<9, 50>>
                                                 [] OTHER -> <<1, 50>>

\* the distribution of the example has been built
C13_Witness ==
    /\ IsSparse(dist.d)
    /\ dist.args = <<PhotonLights, <<1, 5>>, 10>>
    /\ DiscretePDF(dist.d, 2) = <<33, 50>>

IsInterp(d) == d # NoDistrib /\ d.kind = "interp"

\* the sum over j < m of weight(j) * children[j].DiscretePDF(i)
RECURSIVE Mixture(_, _, _, _)
Mixture(d, weight, i, m) ==
    IF m = 0 THEN Zero
    ELSE FAdd(Mixture(d, weight, i, m - 1),
              FMul(weight[m - 1], DiscretePDF(d.distributions[m - 1], i)))

\* w_j / (sum of w)
Normalised(w) == [j \in DOMAIN w |-> FDiv(w[j], SumTo(w, Size(w)))]

\* w_j / (sum of w), and 1 / m for every child when all weights are zero
NormalisedOrEqual(w) ==
    IF SumTo(w, Size(w)) = Zero
    THEN [j \in DOMAIN w |-> FDiv(One, Float(Size(w)))]
    ELSE Normalised(w)

\* C14 as stated: for an InterpolatedDistribution1D built from weights
\* w[0..m) and children, DiscretePDF(i) is the sum over j of
\* (w_j / sum of w) * children[j].DiscretePDF(i) for every index i.
C14_InterpPDFIsNormalisedMixture ==
    IsInterp(dist.d) =>
        \A i \in 0..(Count(dist.d) - 1) :
            DiscretePDF(dist.d, i) =
                Mixture(dist.d, Normalised(dist.args[1]), i, Size(dist.args[1]))

\* children with PDFs [1,0,0] and [0,0,1] under the weights [0.25, 0.75]
TwoLightExample ==
    /\ IsInterp(dist.d)
    /\ dist.args[1] = (0 :> <<1, 4>> @@ 1 :> <<3, 4>>)
    /\ Count(dist.d) = 3
    /\ \A i \in 0..2 :
          /\ DiscretePDF(dist.d.distributions[0], i) = IF i = 0 THEN One ELSE Zero
          /\ DiscretePDF(dist.d.distributions[1], i) = IF i = 2 THEN One ELSE Zero

\* C14 amended: the same when the weights have a positive sum; when all
\* weights are zero every child weighs 1 / m.  The example of weights
\* [0.25, 0.75] gives [0.25, 0, 0.75].
C14_InterpPDFIsMixture ==
    IsInterp(dist.d) =>
        /\ \A i \in 0..(Count(dist.d) - 1) :
              DiscretePDF(dist.d, i) =
                  Mixture(dist.d, NormalisedOrEqual(dist.args[1]), i, Size(dist.args[1]))
        /\ TwoLightExample =>
              \A i \in 0..2 :
                  DiscretePDF(dist.d, i) = CASE i = 0 -> <<1, 4>>
                                             [] i = 1 -> Zero
                                             [] i = 2 -> <<3, 4>>

C14_Witness == TwoLightExample /\ DiscretePDF(dist.d, 2) = <<3, 4>>

-----------------------------------------------------------------------------
(* The packed key of a voxel, for grids of every size the constructors     *)
(* accept: CHECK_LT(nVoxels[i], 1 << 20).                                   *)

\* voxels per axis: one, two, and the largest number below 1 << 20
AxisSizes == {1, 2, Pow2(20) - 1}
\* coordinates: the lowest two, one in the middle and the highest two
AxisCoords == {0, 1, Pow2(10), Pow2(20) - 3, Pow2(20) - 2}
GridSizes == AxisSizes \X AxisSizes \X AxisSizes
VoxelsOf(nv) == {pi \in AxisCoords \X AxisCoords \X AxisCoords :
                    \A i \in 1..3 : pi[i] < nv[i]}

\* two voxels a and b of a grid, no key computed yet
PkInit ==
    \E nv \in GridSizes : \E a \in VoxelsOf(nv), b \in VoxelsOf(nv) :
        pk = [nVoxels |-> nv, a |-> a, b |-> b, packed |-> FALSE,
              packedA |-> {}, packedB |-> {}]

\* the keys Lookup computes for the voxels a and b
PackTwo ==
    /\ ~pk.packed
    /\ pk' = [pk EXCEPT !.packed = TRUE,
                        !.packedA = PackedPos(pk.a), !.packedB = PackedPos(pk.b)]

InitPack == SpatialOff /\ PvOff /\ MlOff /\ KdOff /\ LdOff /\ DistOff
            /\ PkInit /\ KlOff /\ CbOff

NextPack ==
    /\ UNCHANGED <<hashTable, threads, heap, returned, nLookups,
                   pvTable, pvTasks, pvMutex, pvPhase, pvLookups, ml, kd, ld, dist, kl, cb>>
    /\ PackTwo

SpecPack == InitPack /\ [][NextPack]_vars

-----------------------------------------------------------------------------
(* Lookup of points inside and outside the scene bounds, by the spatial     *)
(* cache or by the photon-voxel table after its preprocess.                 *)

InitLookup == Init \/ InitPhotonVoxel

\* ParallelFor on a single worker: the photon tasks run one after the other
InOrder ==
    \A i \in Photons :
        pvTasks'[i] # pvTasks[i] => \A j \in Photons : j < i => pvTasks[j].pc = "done"

NextLookup ==
    \/ pvPhase = "off" /\ Next
    \/ pvPhase # "off" /\ NextPhotonVoxel /\ InOrder

SpecLookup == InitLookup /\ [][NextLookup]_vars

\* the voxel a point belongs to: the first voxel of an axis below the scene
\* bounds, the last one at or above their upper end
EdgeVoxel(p) ==
    [i \in 1..3 |-> IF p[i] < 0 THEN 0
                    ELSE IF p[i] >= OffsetDen THEN nVoxels[i] - 1
                    ELSE (p[i] * nVoxels[i]) \div OffsetDen]

-----------------------------------------------------------------------------
(* Claims about the lifetime of the distributions *)

\* C17: every distribution owned by a LightDistribution has
\* deleteAfterUsage = false and every distribution allocated per Lookup call
\* has deleteAfterUsage = true; so after any sequence of Lookup calls, each
\* followed by deleteMe on its result, no owned distribution has been freed
\* and each temporary has been freed exactly once, without freeing its
\* children.
C17_OnlyTemporariesFreedOnce ==
    \A ptr \in DOMAIN ld.mem :
        LET obj == ld.mem[ptr] IN
        /\ obj.deleteAfterUsage = ~obj.owned
        /\ obj.owned => obj.freed = 0
        /\ ~obj.owned => obj.freed = IF ptr = ld.last THEN 0 ELSE 1
        /\ \A c \in obj.children : ld.mem[c].freed = 0

\* an interpolated distribution over two kept distributions has been deleted,
\* and so has been the result of another Lookup
C17_Witness ==
    /\ ld.last = <<>>
    /\ ld.n = 2
    /\ \E ptr \in DOMAIN ld.mem :
          /\ Cardinality(ld.mem[ptr].children) = 2
          /\ ld.mem[ptr].freed = 1

-----------------------------------------------------------------------------
(* PhotonBasedKdTreeLightDistribution::Lookup: the contributions of the     *)
(* photons a search of the kd-tree returns.  The search is nanoflann's; its *)
(* result is any sequence of photons with their squared distances.          *)

MaxResults == 3

\* intSmooth at its default 1.0f
intSmooth == One

FMax(a, b) == IF FLess(a, b) THEN b ELSE a
\* pow(x, s) for the exponents 1 and 2
FPow(x, s) == IF s = One THEN x ELSE FMul(x, x)
\* sqrt(x) of a square, 0 or infinity
FSqrt(x) ==
    IF x[2] = 0 THEN x
    ELSE LET r == CHOOSE r \in (0..x[1]) \X (1..x[2]) : r[1] * r[1] = x[1] /\ r[2] * r[2] = x[2]
         IN  <<r[1], r[2]>>
\* log(1) = 0
FLog(x) == IF x = One THEN Zero ELSE NaN
\* exp(x) for x = 0, -1 and -4, the latter two to three decimals
FExp(x) == CASE x = Zero -> One
             [] x = Float(-1) -> <<46, 125>>
             [] x = Float(-4) -> <<9, 500>>
             [] OTHER -> NaN

\* squared distances of the photons found
DistSqrs == {Zero, One, Float(4)}
\* a photon of the cloud as a search returns it
Found == [lightNum : Lights, beta : {One, Float(2)}, distSqr : DistSqrs]
SearchResults == UNION {[1..n -> Found] : n \in 0..MaxResults}

\* maxR = max(maxR, out_dist_sqr[i]) over the results, from 0
RECURSIVE MaxDistSqr(_, _)
MaxDistSqr(found, n) ==
    IF n = 0 THEN Zero ELSE FMax(MaxDistSqr(found, n - 1), found[n].distSqr)

\* beta / d with d = max(0.001f, pow(out_dist_sqr[i], intSmooth))
ShepardTerm(beta, distSqr) ==
    FDiv(beta, FMax(<<1, 1000>>, FPow(distSqr, intSmooth)))

\* pow((maxR - d) / (maxR * d), 2) with maxR = pow(max out_dist_sqr, intSmooth)
ModshepTerm(distSqr, maxDistSqr) ==
    LET maxR == FPow(maxDistSqr, intSmooth)
        d == FMax(<<1, 1000>>, FPow(distSqr, intSmooth))
    IN  FPow(FDiv(FSub(maxR, d), FMul(maxR, d)), Float(2))

\* exp(-pow(d / intSmooth, 2)) with d = sqrt(out_dist_sqr[i])
KregTerm(distSqr) ==
    FExp(FNeg(FPow(FDiv(FSqrt(distSqr), intSmooth), Float(2))))

\* exp(-pow(d / p, 2)) - intSmooth with p = sqrt(maxR) / sqrt(-log(intSmooth))
AdkregTerm(distSqr, maxDistSqr) ==
    LET p == FDiv(FSqrt(maxDistSqr), FSqrt(FNeg(FLog(intSmooth))))
    IN  FSub(FExp(FNeg(FPow(FDiv(FSqrt(distSqr), p), Float(2)))), intSmooth)

\* what the loop of the given branch adds to lightContrib[lightNum] for one
\* photon; the radius search adds beta
Term(knn, interpolation, photon, maxDistSqr) ==
    IF ~knn THEN photon.beta
    ELSE CASE interpolation = "shepard" -> ShepardTerm(photon.beta, photon.distSqr)
           [] interpolation = "modshep" -> ModshepTerm(photon.distSqr, maxDistSqr)
           [] interpolation = "kreg"    -> KregTerm(photon.distSqr)
           [] interpolation = "adkreg"  -> AdkregTerm(photon.distSqr, maxDistSqr)
           [] interpolation = "none"    -> photon.beta

\* the loop over the results
RECURSIVE Accumulate(_, _, _, _)
Accumulate(knn, interpolation, found, n) ==
    IF n = 0 THEN EmptyMap
    ELSE MapAdd(Accumulate(knn, interpolation, found, n - 1), found[n].lightNum,
                Term(knn, interpolation, found[n], MaxDistSqr(found, Len(found))))

\* a LightDistribution with knn and interpolation set, and the photons the
\* search of a Lookup finds
KlInit ==
    \E knn \in BOOLEAN, interpolation \in Interpolations, found \in SearchResults :
        kl = [knn |-> knn, interpolation |-> interpolation, found |-> found,
              pc |-> "search", lightContrib |-> EmptyMap, distr |-> NoDistrib]

\* Lookup from the search on: lightContrib and the distribution returned
KdLookup ==
    /\ kl.pc = "search"
    /\ LET lightContrib == Accumulate(kl.knn, kl.interpolation, kl.found, Len(kl.found))
       IN  kl' = [kl EXCEPT !.pc = "returned",
                            !.lightContrib = lightContrib,
                            !.distr = createSparseDistribution1D(
                                          lightContrib, minContributionScale, NumLights, TRUE)]

InitKdLookup == SpatialOff /\ PvOff /\ MlOff /\ KdOff /\ LdOff /\ DistOff
                /\ PkOff /\ KlInit /\ CbOff

NextKdLookup ==
    /\ UNCHANGED <<hashTable, threads, heap, returned, nLookups,
                   pvTable, pvTasks, pvMutex, pvPhase, pvLookups, ml, kd, ld, dist, pk, cb>>
    /\ KdLookup

SpecKdLookup == InitKdLookup /\ [][NextKdLookup]_vars

\* the weight of a photon under the kernel: the factor of beta
KernelWeight(interpolation, photon, maxDistSqr) ==
    CASE interpolation = "shepard" -> ShepardTerm(One, photon.distSqr)
      [] interpolation = "modshep" -> ModshepTerm(photon.distSqr, maxDistSqr)
      [] interpolation = "kreg"    -> KregTerm(photon.distSqr)
      [] interpolation = "adkreg"  -> AdkregTerm(photon.distSqr, maxDistSqr)
      [] interpolation = "none"    -> One

\* the sum over the first n photons found with light l of w_i * beta_i
RECURSIVE WeightedSum(_, _, _, _)
WeightedSum(interpolation, found, l, n) ==
    IF n = 0 THEN Zero
    ELSE FAdd(WeightedSum(interpolation, found, l, n - 1),
              IF found[n].lightNum = l
              THEN FMul(KernelWeight(interpolation, found[n], MaxDistSqr(found, Len(found))),
                        found[n].beta)
              ELSE Zero)

\* C18: in PhotonBasedKdTreeLightDistribution::Lookup, for every kernel and
\* in k-NN and radius mode, contrib[l] handed to the sparse distribution is
\* the sum over the returned photons i with light_num = l of w_i * beta_i,
\* w_i the kernel's weight; with kernel none the photons (light, beta) =
\* (0,1), (1,2), (0,1) give {0:2, 1:2}.
C18_ContribIsWeightedBetaSum ==
    kl.pc = "returned" =>
        /\ DOMAIN kl.lightContrib = {kl.found[n].lightNum : n \in DOMAIN kl.found}
        /\ \A l \in DOMAIN kl.lightContrib :
              kl.lightContrib[l] = WeightedSum(kl.interpolation, kl.found, l, Len(kl.found))

-----------------------------------------------------------------------------
(* PhotonBasedCdfKdTreeLightDistribution::buildCluster over the cloud that  *)
(* shootPhotons left and the leaves of the photon kd-tree.                  *)

\* photonThreshold; 15 by default
photonThreshold == 1

\* the paths a photon task can have taken
ShotPaths == {[tag |-> "early"], [tag |-> "miss"]}
             \cup [tag : {"hit"}, lightNum : Lights, p : HitPoints]

\* the cloud after shootPhotons, photon i having taken path[i]
ShotCloud(path) ==
    LET resized == [pts |-> ResizedCloud, shot |-> [i \in CloudPhotons |-> NotShot]]
    IN  [i \in CloudPhotons |->
            CASE path[i].tag = "early" -> ShootEarlyReturn(resized, i).pts[i]
              [] path[i].tag = "miss"  -> ShootMiss(resized, i).pts[i]
              [] path[i].tag = "hit"   ->
                    ShootIntersect(resized, i, path[i].lightNum, path[i].p).pts[i]]

\* collectAllLeafs: the leaves of the kd-tree over the cloud, each the set of
\* its photon indices
LeavesOf(leaf) == {{i \in CloudPhotons : leaf[i] = c} : c \in Clusters} \ {{}}

CbInit ==
    \E path \in [CloudPhotons -> ShotPaths], leaf \in [CloudPhotons -> Clusters] :
        cb = [pts |-> ShotCloud(path), shot |-> path, clusters |-> LeavesOf(leaf),
              pending |-> LeavesOf(leaf), cdfCloud |-> <<>>]

\* the loop over the photons of a cluster: [x, y, z, lightContrib, numPhotons]
RECURSIVE SumCluster(_, _)
SumCluster(pts, cluster) ==
    IF cluster = {} THEN [x |-> Zero, y |-> Zero, z |-> Zero,
                          lightContrib |-> EmptyMap, numPhotons |-> 0]
    ELSE LET photonIndex == CHOOSE k \in cluster : \A j \in cluster : k >= j
             photon == pts[photonIndex]
             acc == SumCluster(pts, cluster \ {photonIndex})
         IN  IF photon.lightNum = -1 THEN acc
             ELSE [x |-> FAdd(acc.x, Float(photon.x)),
                   y |-> FAdd(acc.y, Float(photon.y)),
                   z |-> FAdd(acc.z, Float(photon.z)),
                   lightContrib |-> MapAdd(acc.lightContrib, photon.lightNum, photon.beta),
                   numPhotons |-> acc.numPhotons + 1]

\* the body of the task of a cluster: the Cdf it pushes, if any
CdfOfCluster(pts, cluster) ==
    LET acc == SumCluster(pts, cluster)
    IN  IF acc.numPhotons > photonThreshold
        THEN <<[x |-> FDiv(acc.x, Float(acc.numPhotons)),
                y |-> FDiv(acc.y, Float(acc.numPhotons)),
                z |-> FDiv(acc.z, Float(acc.numPhotons)),
                distr |-> createSparseDistribution1D(acc.lightContrib, minContributionScale,
                                                     NumLights, FALSE),
                weight |-> acc.numPhotons]>>
        ELSE <<>>

\* the task of one cluster; push_back happens under the mutex m_screen, so
\* the tasks append in any order
BuildClusterTask(cluster) ==
    /\ cluster \in cb.pending
    /\ cb' = [cb EXCEPT !.pending = @ \ {cluster},
                        !.cdfCloud = @ \o CdfOfCluster(cb.pts, cluster)]

InitCdfCluster == SpatialOff /\ PvOff /\ MlOff /\ KdOff /\ LdOff /\ DistOff
                  /\ PkOff /\ KlOff /\ CbInit

NextCdfCluster ==
    /\ UNCHANGED <<hashTable, threads, heap, returned, nLookups,
                   pvTable, pvTasks, pvMutex, pvPhase, pvLookups, ml, kd, ld, dist, pk, kl>>
    /\ \E cluster \in cb.clusters : BuildClusterTask(cluster)

SpecCdfCluster == InitCdfCluster /\ [][NextCdfCluster]_vars

\* the photons of a cluster that intersected the scene
Intersecting(cluster) == {i \in cluster : cb.shot[i].tag = "hit"}

\* the mean of a coordinate of the intersecting photons of a cluster
RECURSIVE SumCoord(_, _)
SumCoord(photons, axis) ==
    IF photons = {} THEN Zero
    ELSE LET i == CHOOSE k \in photons : TRUE
         IN  FAdd(Float(cb.shot[i].p[axis]), SumCoord(photons \ {i}, axis))
Mean(photons, axis) == FDiv(SumCoord(photons, axis), Float(Cardinality(photons)))

\* C19: in the cdftree variant's buildCluster a leaf cluster is removed
\* exactly when it holds fewer than photonThreshold intersecting photons:
\* every cluster with at least photonThreshold such photons is kept, exactly
\* once, with weight equal to their number and centroid equal to their mean
\* position.
C19_ClustersAtThresholdKept ==
    cb.pending = {} =>
        LET kept == {c \in cb.clusters : Cardinality(Intersecting(c)) >= photonThreshold}
        IN  /\ Len(cb.cdfCloud) = Cardinality(kept)
            /\ \A c \in kept :
                  \E k \in DOMAIN cb.cdfCloud :
                      /\ cb.cdfCloud[k].weight = Cardinality(Intersecting(c))
                      /\ cb.cdfCloud[k].x = Mean(Intersecting(c), 1)
                      /\ cb.cdfCloud[k].y = Mean(Intersecting(c), 2)
                      /\ cb.cdfCloud[k].z = Mean(Intersecting(c), 3)

-----------------------------------------------------------------------------
(* shootPhotons as ParallelFor runs it: the tasks of different photon       *)
(* indices run on different worker threads, and the stores of a task to     *)
(* the fields of cloud.pts[photonIndex] are separate steps that interleave  *)
(* with the steps of the other tasks.  The path of a task (RadicalInverse,  *)
(* Sample_Le, scene.Intersect: all reads of const data) is a function of    *)
(* photonIndex and the scene, so it is fixed with the scene.  The chunk     *)
(* size is scaled to one index.                                             *)

\* the element of cloud.pts a task stores to
SharedSlot(photonIndex) == 0
SlotOf(photonIndex) == photonIndex

\* the stores of a task that found or missed a surface, in program order
FieldOrder == <<"x", "y", "z", "beta", "lightNum">>

\* position of a task: 0 before it starts, k before its k-th store, TaskReturned
\* after it
TaskReturned == Len(FieldOrder) + 1

StInit ==
    \E path \in [CloudPhotons -> ShotPaths] :
        kd = [pts |-> ResizedCloud, path |-> path,
              pc |-> [i \in CloudPhotons |-> 0]]

\* the task up to its first store: `return` on a degenerate emission
TaskBegin(photonIndex) ==
    /\ kd.pc[photonIndex] = 0
    /\ kd' = [kd EXCEPT !.pc[photonIndex] =
                  IF kd.path[photonIndex].tag = "early" THEN TaskReturned ELSE 1]

\* one store cloud.pts[photonIndex].<field> = ...
TaskWrite(photonIndex) ==
    /\ kd.pc[photonIndex] \in 1..Len(FieldOrder)
    /\ LET k == kd.pc[photonIndex]
           field == FieldOrder[k]
           value == ShotCloud(kd.path)[photonIndex][field]
       IN  kd' = [kd EXCEPT !.pts[SlotOf(photonIndex)][field] = value,
                            !.pc[photonIndex] =
                                k + 1]

InitShootTasks == SpatialOff /\ PvOff /\ MlOff /\ StInit /\ LdOff /\ DistOff /\ PkOff /\ KlOff /\ CbOff

NextShootTasks ==
    /\ UNCHANGED <<pk, kl, cb, hashTable, threads, heap, returned, nLookups,
                   pvTable, pvTasks, pvMutex, pvPhase, pvLookups, ml, ld, dist>>
    /\ \E photonIndex \in CloudPhotons :
          \/ TaskBegin(photonIndex)
          \/ TaskWrite(photonIndex)

SpecShootTasks == InitShootTasks /\ [][NextShootTasks]_vars

\* the whole task of photon i, run without interruption
RunTask(c, i) ==
    CASE kd.path[i].tag = "early" -> ShootEarlyReturn(c, i)
      [] kd.path[i].tag = "miss"  -> ShootMiss(c, i)
      [] kd.path[i].tag = "hit"   -> ShootIntersect(c, i, kd.path[i].lightNum, kd.path[i].p)

\* the tasks run one after the other in the given order
RECURSIVE RunInOrder(_, _)
RunInOrder(c, order) ==
    IF order = <<>> THEN c
    ELSE RunInOrder(RunTask(c, Head(order)), Tail(order))

\* every order of the photon indices
Orders ==
    {order \in [1..cloudPhotonCount -> CloudPhotons] :
        \A a, b \in 1..cloudPhotonCount : order[a] = order[b] => a = b}

Sequentially(order) ==
    RunInOrder([pts |-> ResizedCloud, shot |-> [i \in CloudPhotons |-> NotShot]], order).pts

\* C20: under every interleaving of the stores of the photon tasks, a slot
\* whose task has not started is as resize left it (no other task writes
\* it), and a slot whose task has finished holds what running the tasks one
\* after the other, in any order, leaves there; so the final photon array
\* equals the sequential one.
C20_TasksWriteOwnSlotOnly ==
    \A i \in CloudPhotons :
        /\ kd.pc[i] = 0 => kd.pts[i] = ZeroPhoton
        /\ kd.pc[i] = TaskReturned =>
              \A order \in Orders : kd.pts[i] = Sequentially(order)[i]

\* all tasks have finished, two of them having stored a photon and a miss
C20_Witness ==
    /\ \A i \in CloudPhotons : kd.pc[i] = TaskReturned
    /\ \E i, j \in CloudPhotons : kd.path[i].tag = "hit" /\ kd.path[j].tag = "miss"
    /\ \A order \in Orders : kd.pts = Sequentially(order)

-----------------------------------------------------------------------------
(* More claims about the spatial cache *)

\* the voxels whose probe sequence starts at the home slot of v
Colliding(v) == {w \in Voxels : w # v /\ HashOf(w) = HashOf(v)}

\* C21: every pointer a Lookup(p) returned is non-null and refers to a
\* distribution ComputeDistribution had finished building (it is on the heap)
\* for the voxel that contains p after clamping; and a distribution published
\* in a slot was finished before the store and built for the slot's key.
C21_ReturnedIsBuiltForOwnVoxel ==
    /\ \A r \in returned :
          /\ r.dist # nullptr
          /\ r.dist \in DOMAIN heap
          /\ heap[r.dist].voxel = VoxelOf(r.p)
    /\ \A s \in Slots :
          hashTable[s].distribution # nullptr =>
              /\ hashTable[s].distribution \in DOMAIN heap
              /\ KeyOf(heap[hashTable[s].distribution].voxel) = hashTable[s].packedPos

\* two voxels with the same home slot were both looked up, the second one
\* found by a Lookup that did not build it, for a point outside the bounds
C21_Witness ==
    \E r1, r2 \in returned :
        /\ r2.pi \in Colliding(r1.pi)
        /\ r2.via # "build"
        /\ r2.p \notin (0..OffsetDen) \X (0..OffsetDen) \X (0..OffsetDen)

\* the slots that hold the key of v together with a distribution
ReadySlots(v) ==
    {s \in Slots : hashTable[s].packedPos = KeyOf(v) /\ hashTable[s].distribution # nullptr}

\* the value of step with which the probe sequence from hash reaches slot s
RECURSIVE ProbeIndex(_, _, _)
ProbeIndex(hash, step, s) ==
    IF hash = s \/ step > 6 * hashTableSize THEN step
    ELSE ProbeIndex(ProbeNext(hash, step), step + 1, s)

\* thread t is in the probe loop of a Lookup of a voxel whose slot is READY
ReadingReady(t) ==
    /\ threads[t].pc \in {"probe", "loadDist"}
    /\ ReadySlots(threads[t].pi) # {}

\* C22: while the slot of voxel v is READY, a Lookup of v is at or before
\* that slot on its probe sequence; each of its own steps either advances
\* one probe or loads the non-null pointer and returns; it never goes to the
\* compare-exchange or the spin loop and its steps leave the table as it is,
\* whatever the other threads do in between.
C22_ReadersWaitFree ==
    [][\A t \in Threads :
          ReadingReady(t) =>
              LET v == threads[t].pi
                  s == CHOOSE x \in ReadySlots(v) : TRUE
                  moved == threads'[t] # threads[t]
              IN  /\ threads[t].step <= ProbeIndex(HashOf(v), 1, s)
                  /\ threads[t].step <= hashTableSize
                  /\ threads[t].pc = "loadDist" => threads[t].hash = s
                  /\ threads'[t].pc \in {"probe", "loadDist", "idle"}
                  /\ moved => hashTable' = hashTable
                  /\ moved /\ threads[t].pc = "loadDist" => threads'[t].pc = "idle"
                  /\ moved /\ threads[t].pc = "probe" /\ threads'[t].pc = "probe"
                        => threads'[t].step = threads[t].step + 1
      ]_vars

\* a Lookup of a READY voxel has probed past the slot of another voxel while
\* another thread holds a claimed slot
C22_Witness ==
    \E t, u \in Threads :
        /\ t # u
        /\ ReadingReady(t) /\ threads[t].step > 1
        /\ threads[u].pc \in {"compute", "store"}

\* a step of the running Lookup of thread t
ThreadStep(t) ==
    /\ Next
    /\ threads[t].pc # "idle"
    /\ threads'[t] # threads[t]

\* the compare-exchange of thread t on an empty slot succeeds
Claim(t) == ThreadStep(t) /\ threads[t].pc = "cas" /\ threads'[t].pc = "compute"

\* Fair scheduling: a thread that can take a step eventually takes one, and
\* a weak compare-exchange that is retried on an empty slot again and again
\* does not fail spuriously for ever.
SpecFair ==
    /\ Spec
    /\ \A t \in Threads : WF_vars(ThreadStep(t)) /\ SF_vars(Claim(t))

\* C24: under fair scheduling every Lookup eventually returns; a thread in
\* the spin loop is there only while the slot is claimed by a thread that is
\* about to build or store; a thread whose compare-exchange fails looks at
\* the same slot again with the same step.
C24_EveryLookupReturns ==
    /\ \A t \in Threads : (threads[t].pc # "idle") ~> (threads[t].pc = "idle")
    /\ [][\A t \in Threads :
            /\ threads[t].pc = "spin" /\ hashTable[threads[t].hash].distribution = nullptr
                  => Claimants(threads[t].hash) # {}
            /\ threads[t].pc = "cas" /\ threads'[t].pc = "probe"
                  => /\ threads'[t].hash = threads[t].hash
                     /\ threads'[t].step = threads[t].step
         ]_vars

\* a thread spins on the slot another thread is about to store into, the
\* slot reached by probing past another voxel
C24_Witness ==
    \E t, u \in Threads :
        /\ threads[t].pc = "spin" /\ threads[u].pc = "store"
        /\ threads[t].hash = threads[u].hash /\ threads[u].step > 1

\* C25: in every reachable state of the spatial hash table, whatever the
\* interleaving and the spurious failures of the weak compare-exchange, no
\* two slots hold the same packed key other than the INVALID one.
C25_NoDuplicateKeys ==
    \A s1, s2 \in Slots :
        (s1 # s2 /\ hashTable[s1].packedPos # invalidPackedPos)
            => hashTable[s1].packedPos # hashTable[s2].packedPos

\* a thread has claimed the slot of a voxel while another thread, looking up
\* the same voxel, is about to try its compare-exchange on that slot
C25_Witness ==
    \E t, u \in Threads :
        /\ threads[t].pc = "compute" /\ threads[u].pc = "cas"
        /\ threads[t].hash = threads[u].hash /\ threads[t].pi = threads[u].pi

-----------------------------------------------------------------------------
(* More claims about the photon-voxel table *)

\* the slots that hold the key of voxel v
PvSlotsOf(v) == {s \in Slots : pvTable[s].packedPos = KeyOf(v)}

\* the first slot on the probe sequence from hash that holds the key of v or
\* no key
RECURSIVE FirstNotOther(_, _, _)
FirstNotOther(v, hash, step) ==
    IF pvTable[hash].packedPos \in {KeyOf(v), invalidPackedPos} \/ step > hashTableSize
    THEN hash
    ELSE FirstNotOther(v, ProbeNext(hash, step), step + 1)

\* C26: when the preprocess has ended, whatever the interleaving of the
\* photon tasks and the failures of their compare-exchanges, each voxel key
\* is in at most one slot, and that slot is the first one on the key's probe
\* sequence that no other key holds.
C26_OneSlotPerVoxel ==
    pvPhase = "render" =>
        \A v \in Voxels :
            /\ Cardinality(PvSlotsOf(v)) <= 1
            /\ PvSlotsOf(v) \subseteq {FirstNotOther(v, HashOf(v), 1)}

\* distributions.push_back(getDistribution(...)) for each of the voxels
RECURSIVE FoundFor(_)
FoundFor(voxelIds) ==
    IF voxelIds = <<>> THEN <<>>
    ELSE LET pi == Head(voxelIds)
         IN  <<getDistribution(KeyOf(pi), HashOf(pi), 1)>> \o FoundFor(Tail(voxelIds))

\* Lookup with interpolateCdf true: getInterpolatedDistribution looks up the
\* voxel of p and its neighbours and returns a new InterpolatedDistribution1D
\* over what it found
PvLookupInterpolated(p) ==
    /\ pvPhase = "render"
    /\ pvLookups' = {[p |-> p, pi |-> VoxelOf(p), distr |-> <<"new">>,
                      distributions |-> FoundFor(InterpolationVoxels(p, 3))]}
    /\ UNCHANGED <<pvTable, pvTasks, pvMutex, pvPhase>>

\* the preprocess on a single worker, then Lookups with and without
\* interpolation
NextPvRender ==
    \/ NextPhotonVoxel /\ InOrder
    \/ /\ UNCHANGED <<pk, kl, cb, hashTable, threads, heap, returned, nLookups, ml, kd, ld, dist>>
       /\ \E p \in ProbePoints : PvLookupInterpolated(p)

SpecPvRender == InitPhotonVoxel /\ [][NextPvRender]_vars

\* C29: once the constructor has returned, no step (the Lookups, with or
\* without interpolation, are the only ones) changes the hash table: no key,
\* no contribution map and no distribution of any slot, and no slot is
\* claimed for a voxel that received no photons.
C29_LookupLeavesTable == [][pvPhase = "render" => pvTable' = pvTable]_vars

\* an interpolating Lookup found the slots of some voxels and no slot for
\* others, whose home slots are still empty
C29_Witness ==
    \E r \in pvLookups :
        /\ "distributions" \in DOMAIN r
        /\ \E j, k \in DOMAIN r.distributions :
              /\ r.distributions[j] = DefaultPtr
              /\ r.distributions[k] # DefaultPtr
        /\ \E v \in Voxels : pvTable[HashOf(v)].packedPos = invalidPackedPos

\* The second ParallelFor of shootPhotons, slot by slot.  pk holds, for each
\* chunk of the loop, the next index that chunk converts; it is <<>> until the
\* first ParallelFor has joined.

\* the chunk size of ParallelFor (4096 at lines 600 and 605)
chunkSize == 8

Chunks == 0..(((hashTableSize + chunkSize - 1) \div chunkSize) - 1)

ChunkStart(c) == c * chunkSize

ChunkEnd(c) == IF (c + 1) * chunkSize < hashTableSize THEN (c + 1) * chunkSize
               ELSE hashTableSize

\* the slots whose distribution has been stored
Converted ==
    IF pk = <<>> THEN {}
    ELSE UNION {ChunkStart(c)..(pk[c] - 1) : c \in Chunks}

\* line 600: the first ParallelFor returns when every photon task has run;
\* line 602: the second one starts
PvJoin ==
    /\ pvPhase = "shoot"
    /\ \A i \in Photons : pvTasks[i].pc = "done"
    /\ pvPhase' = "convert"
    /\ pk' = [c \in Chunks |-> ChunkStart(c)]
    /\ UNCHANGED <<pvTable, pvTasks, pvMutex, pvLookups>>

\* lines 603-604: hashTable[i].distribution = createSparseDistribution1D(...)
PvConvert(c) ==
    /\ pvPhase = "convert"
    /\ pk[c] < ChunkEnd(c)
    /\ pvTable' = [pvTable EXCEPT ![pk[c]].distribution =
                      createSparseDistribution1D(pvTable[pk[c]].lightContrib,
                                                 minContributionScale, NumLights, FALSE)]
    /\ pk' = [pk EXCEPT ![c] = @ + 1]
    /\ UNCHANGED <<pvTasks, pvMutex, pvPhase, pvLookups>>

\* a constructor that returns while slots are still to be converted
PvReturnEarly ==
    /\ pvPhase = "convert"
    /\ pvPhase' = "render"
    /\ UNCHANGED <<pvTable, pvTasks, pvMutex, pvLookups, pk>>

\* lines 605-606 and 440-441: the second ParallelFor returns when every index
\* has run, then shootPhotons and the constructor return
PvReturn ==
    /\ pvPhase = "convert"
    /\ \A c \in Chunks : pk[c] = ChunkEnd(c)
    /\ pvPhase' = "render"
    /\ UNCHANGED <<pvTable, pvTasks, pvMutex, pvLookups, pk>>

NextPvConvert ==
    /\ UNCHANGED <<kl, cb, hashTable, threads, heap, returned, nLookups, ml, kd, ld, dist>>
    /\ \/ /\ UNCHANGED pk
          /\ \E i \in Photons :
                \/ PvNoIntersection(i)
                \/ \E lightNum \in Lights, pi \in PointVoxels : PvIntersect(i, lightNum, pi)
                \/ PvLoadPackedPos(i)
                \/ PvCompareExchange(i)
                \/ PvLock(i)
                \/ PvAccumulate(i)
                \/ PvUnlock(i)
          /\ InOrder
       \/ PvJoin
       \/ \E c \in Chunks : PvConvert(c)
       \/ PvReturn
       \/ UNCHANGED pk /\ \E p \in ProbePoints : PvLookup(p)

SpecPvConvert == InitPhotonVoxel /\ [][NextPvConvert]_vars

\* C30: no slot is converted before every photon task has finished, the
\* constructor returns only when every slot is converted, and the slot a
\* Lookup returns holds a key and the distribution of its final map
C30_ConvertedBeforeLookup ==
    /\ Converted # {} => \A i \in Photons : pvTasks[i].pc = "done"
    /\ pvPhase = "render" => Converted = Slots
    /\ \A s \in Converted :
          pvTable[s].distribution =
              createSparseDistribution1D(pvTable[s].lightContrib,
                                         minContributionScale, NumLights, FALSE)
    /\ \A r \in pvLookups :
          r.distr # DefaultPtr =>
              /\ pvTable[r.distr[2]].packedPos # invalidPackedPos
              /\ r.distr[2] \in Converted

\* a Lookup has returned the slot into which both photons were accumulated
C30_Witness ==
    /\ pvPhase = "render"
    /\ \E r \in pvLookups :
          /\ r.distr # DefaultPtr
          /\ Cardinality(DOMAIN pvTable[r.distr[2]].lightContrib) = 2
          /\ r.distr[2] \in Converted

-----------------------------------------------------------------------------
(* The probe loop of Lookup, getDistribution and the preprocess on its own, *)
(* for tables of several grids.  What the loop tests of a slot is whether   *)
(* it holds the searched key, another key, or none; the table is given by   *)
(* the set of slots that hold other keys and the slot, if any, of the       *)
(* searched key.  step * step stays below 2^31 for the tables used here.    *)

\* grids: the smallest, the grid of the other specifications, and one with
\* 17, 11 and 5 voxels on its axes
ProbeGrids == {<<1, 1, 1>>, <<2, 1, 1>>, <<2, 2, 1>>, <<5, 1, 1>>, <<17, 11, 5>>}

VoxelCount(nv) == nv[1] * nv[2] * nv[3]
\* hashTableSize = 4 * nVoxels[0] * nVoxels[1] * nVoxels[2]
TableSize(nv) == 4 * VoxelCount(nv)

\* hash += step * step; if (hash >= hashTableSize) hash %= hashTableSize;
ProbeStep(hash, step, size) == (hash + step * step) % size

\* 1^2 + ... + k^2 = k (k + 1) (2 k + 1) / 6 modulo size, computed modulo
\* 6 * size
SumOfSquares(k, size) ==
    LET M == 6 * size
    IN  ((((k % M) * ((k + 1) % M)) % M) * ((2 * k + 1) % M) % M) \div 6

\* the slots the probe sequence from hash visits; the sequence repeats after
\* 6 * size probes
ProbePath(hash, size) == {(hash + SumOfSquares(k, size)) % size : k \in 0..(6 * size - 1)}

\* start hashes: the first and the last slot
StartHashes(nv) == {0, TableSize(nv) - 1}

\* the largest of the grids and the slots its probe sequence visits from
\* slot 0; from hash it visits these slots shifted by hash
WorstGrid == <<17, 11, 5>>
WorstPath == ProbePath(0, TableSize(WorstGrid))

\* tables with fewer occupied slots than the grid has voxels: no slot; on
\* the small tables any slots; on the largest every slot of the probe path,
\* when the keys of the other voxels are enough to fill them
OccupiedSets(nv) ==
    {[onPath |-> FALSE, slots |-> {}]}
    \cup (IF TableSize(nv) <= 16
          THEN [onPath : {FALSE},
                slots : {S \in SUBSET (0..(TableSize(nv) - 1)) :
                            Cardinality(S) \in 1..(VoxelCount(nv) - 1)}]
          ELSE {})
    \cup (IF nv = WorstGrid /\ Cardinality(WorstPath) <= VoxelCount(nv) - 1
          THEN {[onPath |-> TRUE, slots |-> {}]}
          ELSE {})

\* slot holds the key of another voxel
IsOccupied(slot) ==
    IF pk.occupied.onPath
    THEN ((slot - pk.hash0) % TableSize(pk.nVoxels)) \in WorstPath
    ELSE slot \in pk.occupied.slots

\* a Lookup about to probe: its start hash, step = 1; the searched key is in
\* no slot (-1) or in a slot of its probe path
PrInit ==
    \E nv \in ProbeGrids : \E hash \in StartHashes(nv) :
        \E occupied \in OccupiedSets(nv), present \in BOOLEAN :
            LET free == IF occupied.onPath THEN {}
                        ELSE ProbePath(hash, TableSize(nv)) \ occupied.slots
            IN  pk = [nVoxels |-> nv, occupied |-> occupied,
                      keySlot |-> IF present /\ free # {}
                                  THEN CHOOSE s \in free : \A x \in free : x <= s
                                  ELSE -1,
                      hash0 |-> hash, hash |-> hash, step |-> 1, nProbes |-> 0,
                      pc |-> "probe"]

\* the loop is back at its start slot with a step that differs from its
\* first step by a multiple of the table size: from here it repeats
Cycled ==
    /\ pk.nProbes > 0
    /\ pk.hash = pk.hash0
    /\ (pk.step - 1) % TableSize(pk.nVoxels) = 0

\* one iteration of while (true)
Probe ==
    /\ pk.pc = "probe"
    /\ ~Cycled
    /\ \/ /\ pk.hash = pk.keySlot
          /\ pk' = [pk EXCEPT !.pc = "found", !.nProbes = @ + 1]
       \/ /\ pk.hash # pk.keySlot
          /\ ~IsOccupied(pk.hash)
          /\ pk' = [pk EXCEPT !.pc = "empty", !.nProbes = @ + 1]
       \/ /\ pk.hash # pk.keySlot
          /\ IsOccupied(pk.hash)
          /\ pk' = [pk EXCEPT !.hash = ProbeStep(pk.hash, pk.step, TableSize(pk.nVoxels)),
                              !.step = @ + 1, !.nProbes = @ + 1]

InitProbe == SpatialOff /\ PvOff /\ MlOff /\ KdOff /\ LdOff /\ DistOff
             /\ PrInit /\ KlOff /\ CbOff

NextProbe ==
    /\ UNCHANGED <<hashTable, threads, heap, returned, nLookups,
                   pvTable, pvTasks, pvMutex, pvPhase, pvLookups, ml, kd, ld, dist, kl, cb>>
    /\ Probe

SpecProbe == InitProbe /\ [][NextProbe]_vars

-----------------------------------------------------------------------------
(* The slots the photon-voxel preprocess claims, on the tables of small     *)
(* grids: the probe loop of shootPhotons without the accumulation into the  *)
(* map of the slot.  Each photon index is a task of its own.                *)

InsertGrids == {<<1, 1, 1>>, <<2, 1, 1>>}
VoxelsIn(nv) == (0..(nv[1] - 1)) \X (0..(nv[2] - 1)) \X (0..(nv[3] - 1))
SlotsIn(nv) == 0..(TableSize(nv) - 1)

\* hash = mix(packedPos) % hashTableSize for the table of grid nv
HashIn(nv, pi) == Mod64(Mix64(PackedPos(pi)), TableSize(nv))

InsIdle == [pc |-> "start", pi |-> <<0, 0, 0>>, hash |-> 0, step |-> 0]

\* initVoxelHashTable
InsInit ==
    \E nv \in InsertGrids :
        pk = [nVoxels |-> nv,
              table |-> [s \in SlotsIn(nv) |-> invalidPackedPos],
              tasks |-> [i \in Photons |-> InsIdle]]

\* the photon misses the scene or its emission is degenerate
InsNoIntersection(i) ==
    /\ pk.tasks[i].pc = "start"
    /\ pk' = [pk EXCEPT !.tasks[i].pc = "done"]

\* the photon hits the scene in voxel pi
InsIntersect(i, pi) ==
    /\ pk.tasks[i].pc = "start"
    /\ pk' = [pk EXCEPT !.tasks[i] = [pc |-> "probe", pi |-> pi,
                                      hash |-> HashIn(pk.nVoxels, pi), step |-> 1]]

InsAdvanced(i) ==
    [pk.tasks[i] EXCEPT !.pc = "probe",
                        !.hash = ProbeStep(pk.tasks[i].hash, pk.tasks[i].step,
                                           TableSize(pk.nVoxels)),
                        !.step = pk.tasks[i].step + 1]

\* entryPackedPos == packedPos, the left operand of ||
InsLoadPackedPos(i) ==
    /\ pk.tasks[i].pc = "probe"
    /\ pk' = [pk EXCEPT !.tasks[i].pc =
                 IF pk.table[pk.tasks[i].hash] = PackedPos(pk.tasks[i].pi)
                 THEN "done" ELSE "cas"]

\* compare_exchange_weak(invalid, packedPos); the else branch is taken
\* whenever it returns false
InsCompareExchange(i) ==
    /\ pk.tasks[i].pc = "cas"
    /\ \/ /\ pk.table[pk.tasks[i].hash] = invalidPackedPos
          /\ pk' = [pk EXCEPT !.table[pk.tasks[i].hash] = PackedPos(pk.tasks[i].pi),
                              !.tasks[i].pc = "done"]
       \/ /\ pk.table[pk.tasks[i].hash] = invalidPackedPos   \* spurious failure
          /\ pk.tasks[i].step <= MaxSpurious
          /\ pk' = [pk EXCEPT !.tasks[i] = InsAdvanced(i)]
       \/ /\ pk.table[pk.tasks[i].hash] # invalidPackedPos
          /\ pk' = [pk EXCEPT !.tasks[i] = InsAdvanced(i)]

InitInsert == SpatialOff /\ PvOff /\ MlOff /\ KdOff /\ LdOff /\ DistOff
              /\ InsInit /\ KlOff /\ CbOff

NextInsert ==
    /\ UNCHANGED <<hashTable, threads, heap, returned, nLookups,
                   pvTable, pvTasks, pvMutex, pvPhase, pvLookups, ml, kd, ld, dist, kl, cb>>
    /\ \E i \in Photons :
          \/ InsNoIntersection(i)
          \/ \E pi \in VoxelsIn(pk.nVoxels) : InsIntersect(i, pi)
          \/ InsLoadPackedPos(i)
          \/ InsCompareExchange(i)

SpecInsert == InitInsert /\ [][NextInsert]_vars

\* C27: in every reachable state of the table, the number of slots whose
\* key is not INVALID is at most the number of voxels nx * ny * nz, a
\* quarter of the table size.
C27_LoadAtMostQuarter ==
    LET used == {s \in SlotsIn(pk.nVoxels) : pk.table[s] # invalidPackedPos}
    IN  /\ Cardinality(used) <= VoxelCount(pk.nVoxels)
        /\ 4 * Cardinality(used) <= TableSize(pk.nVoxels)

-----------------------------------------------------------------------------
(* The size and the first contents of the hash table, as the constructor of *)
(* SpatialLightDistribution and initVoxelHashTable compute them.  nVoxels   *)
(* are ints, hashTableSize is a size_t: the product is formed in 32-bit int *)
(* arithmetic (words here, as the products exceed the integers of the       *)
(* checker) and converted.  Signed overflow is undefined: the build wraps   *)
(* the product, or traps.                                                   *)

\* voxels per axis: nVoxels[i] = max(1, round(diag[i] / bmax * maxVoxels)),
\* with maxVoxels 1, 2, 64 (the default) and 1024
TableAxes == {1, 2, 64, 1024}
\* the widest axis has maxVoxels voxels, the others at most as many; all
\* pass CHECK_LT(nVoxels[i], 1 << 20)
TableGrids == TableAxes \X TableAxes \X TableAxes

\* 4 * nVoxels[0] * nVoxels[1] * nVoxels[2] as a mathematical value
ExactSize(nv) == Mul64(Mul64(Mul64(ToWord(4), ToWord(nv[1])), ToWord(nv[2])), ToWord(nv[3]))

\* the value is an int
FitsInt(w) == \A b \in w : b < 31

\* the int a wrapping multiplication leaves, converted to size_t
WrappedSize(w) ==
    LET low == {b \in w : b <= 31}
    IN  IF 31 \in low THEN low \cup (32..63) ELSE low

\* what the initialisation loop stores in every slot: distribution is the
\* sequence of the one value stored, and empty for the photon-voxel
\* HashEntry, whose plain pointer the loop does not set
InitialEntry(class) ==
    IF class = "spatial"
    THEN [packedPos |-> invalidPackedPos, distribution |-> <<nullptr>>]
    ELSE [packedPos |-> invalidPackedPos, lightContrib |-> EmptyMap,
          distribution |-> <<>>]

TbInit ==
    \E class \in {"spatial", "photonvoxel"}, nv \in TableGrids :
        pk = [class |-> class, nVoxels |-> nv, pc |-> "construct",
              hashTableSize |-> {}, entry |-> <<>>]

\* hashTableSize = 4 * nVoxels[0] * nVoxels[1] * nVoxels[2]; new HashEntry[];
\* the loop over the slots
BuildTable ==
    /\ pk.pc = "construct"
    /\ \/ pk' = [pk EXCEPT !.pc = "built",
                           !.hashTableSize = WrappedSize(ExactSize(pk.nVoxels)),
                           !.entry = InitialEntry(pk.class)]
       \/ /\ ~FitsInt(ExactSize(pk.nVoxels))
          /\ pk' = [pk EXCEPT !.pc = "trapped"]

InitTable == SpatialOff /\ PvOff /\ MlOff /\ KdOff /\ LdOff /\ DistOff
             /\ TbInit /\ KlOff /\ CbOff

NextTable ==
    /\ UNCHANGED <<hashTable, threads, heap, returned, nLookups,
                   pvTable, pvTasks, pvMutex, pvPhase, pvLookups, ml, kd, ld, dist, kl, cb>>
    /\ BuildTable

SpecTable == InitTable /\ [][NextTable]_vars

\* C28: for every grid that passes the per-axis check, the constructor ends
\* with a table whose size is the mathematical value 4 * nx * ny * nz, at
\* least 4, and every slot starts as (INVALID, null).
C28_TableSizeExact ==
    /\ pk.pc # "trapped"
    /\ pk.pc = "built" =>
          /\ pk.hashTableSize = ExactSize(pk.nVoxels)
          /\ \E b \in pk.hashTableSize : b >= 2
          /\ pk.entry.packedPos = invalidPackedPos
          /\ pk.entry.distribution = <<nullptr>>

-----------------------------------------------------------------------------
(* The accumulation of line 585 as the read and the write it consists of:   *)
(* lightContrib[lightNum] += fbeta reads the entry, inserting 0 for a      *)
(* light without one, and stores the sum.                                   *)

\* the voxels the photons of this specification land in: both hash to slot 0
MutexVoxels == {<<0, 0, 0>>, <<1, 1, 0>>}

\* operator[]: the entry of lightNum, value-initialised when it is new
PvLoadContrib(i) ==
    /\ pvPhase = "shoot" /\ pvTasks[i].pc = "add"
    /\ LET t == pvTasks[i]
           map == MapAdd(pvTable[t.hash].lightContrib, t.lightNum, Zero)
       IN  /\ pvTable' = [pvTable EXCEPT ![t.hash].lightContrib = map]
           /\ PvSetTask(i, [pc |-> "store", lightNum |-> t.lightNum, pi |-> t.pi,
                            hit |-> t.hit, hash |-> t.hash, step |-> t.step,
                            read |-> map[t.lightNum]])
    /\ UNCHANGED <<pvMutex, pvPhase, pvLookups>>

\* += fbeta: the sum of the value read and fbeta is stored
PvStoreContrib(i) ==
    /\ pvPhase = "shoot" /\ pvTasks[i].pc = "store"
    /\ LET t == pvTasks[i]
       IN  /\ pvTable' = [pvTable EXCEPT ![t.hash].lightContrib =
                             [@ EXCEPT ![t.lightNum] = FAdd(t.read, Float(PhotonBeta(i)))]]
           /\ PvSetTask(i, [t EXCEPT !.pc = "unlock"])
    /\ UNCHANGED <<pvMutex, pvPhase, pvLookups>>

NextPvMutex ==
    /\ UNCHANGED <<pk, kl, cb, hashTable, threads, heap, returned, nLookups, ml, kd, ld, dist>>
    /\ \E i \in Photons :
          \/ PvNoIntersection(i)
          \/ \E lightNum \in Lights, pi \in MutexVoxels : PvIntersect(i, lightNum, pi)
          \/ PvLoadPackedPos(i)
          \/ PvCompareExchange(i)
          \/ PvLock(i)
          \/ PvLoadContrib(i)
          \/ PvStoreContrib(i)
          \/ PvUnlock(i)

SpecPvMutex == InitPhotonVoxel /\ [][NextPvMutex]_vars

\* the sum of all entries of the maps of all slots
RECURSIVE SumEntries(_)
SumEntries(E) ==
    IF E = {} THEN Zero
    ELSE LET e == CHOOSE x \in E : TRUE
         IN  FAdd(pvTable[e[1]].lightContrib[e[2]], SumEntries(E \ {e}))

TotalContrib ==
    SumEntries(UNION {{<<s, l>> : l \in DOMAIN pvTable[s].lightContrib} : s \in Slots})

\* the tasks between lock() and unlock()
Updating == {i \in Photons : pvTasks[i].pc \in {"add", "store", "unlock"}}

\* C35: every update of a per-voxel map is made by the holder of the one
\* mutex, so no two tasks update at the same time, and under every
\* interleaving the sum of all entries of all maps is the sum of beta over the
\* photons that intersected the scene and have made their update: no update
\* is lost or doubled.
C35_UpdatesUnderMutex ==
    /\ \A i \in Updating : pvMutex = i + 1
    /\ Cardinality(Updating) <= 1
    /\ TotalContrib =
           Float(SumBeta({i \in Photons : pvTasks[i].hit /\ pvTasks[i].pc \in {"unlock", "done"}}))

\* two photons of one light have been added to one map, the second while the
\* first still held the slot's entry
C35_Witness ==
    /\ \A i \in Photons : pvTasks[i].pc = "done" /\ pvTasks[i].hit
    /\ \E s \in Slots, l \in Lights :
          /\ l \in DOMAIN pvTable[s].lightContrib
          /\ pvTable[s].lightContrib[l] = Float(SumBeta(Photons))

-----------------------------------------------------------------------------
(* getInterpolatedDistribution on grids of one to three voxels per axis,    *)
(* for points inside and outside the scene bounds.  pk holds the call: the  *)
(* grid, the point, and the vectors voxelIds and influence it has built.    *)

\* a point's offset in the scene bounds is q / InterpDen
InterpDen == 4

InterpGrids == {<<1, 1, 1>>, <<2, 2, 2>>, <<3, 3, 3>>, <<3, 2, 1>>}
InterpCoord == (-1)..(InterpDen + 1)
InterpPoints == InterpCoord \X InterpCoord \X InterpCoord

\* fmod(num / den, 1.0f): the result has the sign of the dividend
Fmod1(num, den) == IF num >= 0 THEN Norm(num % den, den) ELSE Norm(-((-num) % den), den)

FAbs(a) == <<Abs(a[1]), a[2]>>

\* offsetInVoxel = fmod(offset[i] / (1.0f / nVoxels[i]), 1.0f) - 0.5f
offsetInVoxel(nv, p, i) == FSub(Fmod1(p[i] * nv[i], InterpDen), <<1, 2>>)

\* voxelId of Lookup for a grid of nv voxels
VoxelIn(nv, p) == [i \in 1..3 |-> Clamp(Trunc(p[i] * nv[i], InterpDen), 0, nv[i] - 1)]

\* the inner loop that pushes every neighbour, also one outside the grid
RECURSIVE SplitAxisUnchecked(_, _, _, _)
SplitAxisUnchecked(nv, st, size, i) ==
    IF size = 0 THEN st
    ELSE LET done == SplitAxisUnchecked(nv, st, size - 1, i)
             frac == offsetInVoxel(nv, st.p, i)
             newId == [done.voxelIds[size] EXCEPT ![i] = @ + (IF FLess(Zero, frac) THEN 1 ELSE -1)]
         IN  [done EXCEPT
                 !.voxelIds = Append(@, newId),
                 !.influence = Append([@ EXCEPT ![size] = FMul(@, FSub(One, FAbs(frac)))],
                                      FMul(done.influence[size], FAbs(frac)))]

\* the inner loop over n < size for axis i: a neighbour inside the grid is
\* pushed with influence[n] * |offsetInVoxel| and influence[n] is scaled by
\* 1 - |offsetInVoxel|
RECURSIVE SplitAxis(_, _, _, _)
SplitAxis(nv, st, size, i) ==
    IF size = 0 THEN st
    ELSE LET done == SplitAxis(nv, st, size - 1, i)
             frac == offsetInVoxel(nv, st.p, i)
             newId == [done.voxelIds[size] EXCEPT ![i] = @ + (IF FLess(Zero, frac) THEN 1 ELSE -1)]
         IN  IF newId[i] >= 0 /\ newId[i] < nv[i]
             THEN [done EXCEPT
                      !.voxelIds = Append(@, newId),
                      !.influence = Append([@ EXCEPT ![size] = FMul(@, FSub(One, FAbs(frac)))],
                                           FMul(done.influence[size], FAbs(frac)))]
             ELSE done

\* voxelIds and influence after the first axes iterations of the outer loop
RECURSIVE getInterpolatedDistribution(_, _, _)
getInterpolatedDistribution(nv, p, axes) ==
    IF axes = 0 THEN [p |-> p, voxelIds |-> <<VoxelIn(nv, p)>>, influence |-> <<One>>]
    ELSE LET st == getInterpolatedDistribution(nv, p, axes - 1)
         IN  IF offsetInVoxel(nv, p, axes) = Zero THEN st
             ELSE SplitAxis(nv, st, Len(st.voxelIds), axes)

IpInit ==
    \E nv \in InterpGrids, p \in InterpPoints :
        pk = [nVoxels |-> nv, p |-> p, pc |-> "call", voxelIds |-> <<>>, influence |-> <<>>,
              splits |-> <<>>]

\* Lookup with interpolateCdf: the children are looked up for voxelIds, the
\* weights are influence; splits keeps influence as it was after each axis
Interpolate ==
    /\ pk.pc = "call"
    /\ LET nv == pk.nVoxels
           p == pk.p
           st == getInterpolatedDistribution(nv, p, 3)
       IN  pk' = [pk EXCEPT !.pc = "done", !.voxelIds = st.voxelIds,
                            !.influence = st.influence,
                            !.splits = <<getInterpolatedDistribution(nv, p, 1).influence,
                                         getInterpolatedDistribution(nv, p, 2).influence,
                                         st.influence>>]

InitInterp == SpatialOff /\ PvOff /\ MlOff /\ KdOff /\ LdOff /\ DistOff /\ IpInit /\ KlOff /\ CbOff

NextInterp ==
    /\ UNCHANGED <<hashTable, threads, heap, returned, nLookups,
                   pvTable, pvTasks, pvMutex, pvPhase, pvLookups, ml, kd, ld, dist, kl, cb>>
    /\ Interpolate

SpecInterp == InitInterp /\ [][NextInterp]_vars

RECURSIVE FSum(_)
FSum(s) == IF s = <<>> THEN Zero ELSE FAdd(Head(s), FSum(Tail(s)))

\* C31: for every point, inside or outside the scene bounds, the interpolated
\* distribution has between 1 and 8 children, every child is looked up for a
\* voxel inside the grid on all axes, every influence weight lies in [0, 1],
\* and the weights sum to 1 after each axis split.
C31_InterpolationWeights ==
    pk.pc = "done" =>
        /\ Len(pk.voxelIds) \in 1..8
        /\ Len(pk.influence) = Len(pk.voxelIds)
        /\ \A k \in DOMAIN pk.voxelIds :
              \A i \in 1..3 : pk.voxelIds[k][i] >= 0 /\ pk.voxelIds[k][i] < pk.nVoxels[i]
        /\ \A k \in DOMAIN pk.influence :
              FLeq(Zero, pk.influence[k]) /\ FLeq(pk.influence[k], One)
        /\ \A a \in DOMAIN pk.splits : FSum(pk.splits[a]) = One

\* a point with eight children of unequal weight
C31_Witness ==
    /\ pk.pc = "done"
    /\ Len(pk.voxelIds) = 8
    /\ \E k \in DOMAIN pk.influence : pk.influence[k] = <<1, 64>>

-----------------------------------------------------------------------------
(* SampleDiscrete of the three representations.  A distribution is built as *)
(* in SpecDistr and then sampled once; pk holds the call and what it did.   *)

\* the values of u at which the call changes its own decision: all of
\* Breaks(d) for a Distribution1D or SparseDistribution1D, the cdf of the
\* weights for an InterpolatedDistribution1D
Thresholds(d) ==
    IF d.kind = "interp"
    THEN {b \in {d.cdf[i] : i \in DOMAIN d.cdf} \cup {Zero, One} : FLeq(Zero, b) /\ FLeq(b, One)}
    ELSE Breaks(d)

\* the values of u a distribution is sampled with: every threshold below 1,
\* 0 among them, and one value between every two neighbouring thresholds
SampleUs(d) ==
    LET B == Thresholds(d)
    IN  {b \in B : FLess(b, One)}
        \cup {Mid(c) : c \in {c \in B \X B :
                                /\ FLess(c[1], c[2])
                                /\ \A b \in B : ~(FLess(c[1], b) /\ FLess(b, c[2]))}}

\* the position of sampleMap that the sparse branch reads
SparseRead(d, u) == BaseSampleDiscrete(d, FDiv(u, FSub(One, d.uniProb))).index

\* SampleDiscrete(u) with what the call did on its way: the branch taken and
\* the position read by a SparseDistribution1D, the child chosen and the
\* uSub passed to it by an InterpolatedDistribution1D
Sampled(d, u, oob) ==
    LET s == SampleDiscrete(d, u, oob)
    IN  CASE d.kind = "dense" -> [d |-> d, u |-> u, index |-> s.index, pdf |-> s.pdf]
          [] d.kind = "sparse" ->
                LET uniform == FLess(FSub(One, d.uniProb), u)
                IN  [d |-> d, u |-> u, index |-> s.index, pdf |-> s.pdf,
                     uniform |-> uniform,
                     read |-> IF uniform THEN <<>> ELSE <<SparseRead(d, u)>>]
          [] d.kind = "interp" ->
                LET offset == FindInterval(Size(d.cdf), d.cdf, u)
                    uSub == ClampBelowOne(FDiv(FSub(u, d.cdf[offset]),
                                               FSub(d.cdf[offset + 1], d.cdf[offset])))
                IN  [d |-> d, u |-> u, index |-> s.index, pdf |-> s.pdf,
                     offset |-> offset, uSub |-> uSub,
                     child |-> SampleDiscrete(d.distributions[offset], uSub, oob).index]

\* distr->SampleDiscrete(u); oob is what a read outside sampleMap yields
Sample(u, oob) ==
    /\ dist.d # NoDistrib
    /\ pk = <<>>
    /\ pk' = Sampled(dist.d, u, oob)
    /\ UNCHANGED dist

InitSample == InitDistr

NextSample ==
    \/ pk = <<>> /\ NextDistr
    \/ /\ UNCHANGED <<kl, cb, hashTable, threads, heap, returned, nLookups,
                      pvTable, pvTasks, pvMutex, pvPhase, pvLookups, ml, kd, ld>>
       /\ dist.d # NoDistrib
       /\ \E u \in SampleUs(dist.d), oob \in {0, Count(dist.d) - 1} : Sample(u, oob)

SpecSample == InitSample /\ [][NextSample]_vars

\* C32: for every SparseDistribution1D (any contribution map, an empty or
\* all-non-positive one included, any floor, any n_all > 0) and every u in
\* [0, 1), u = 0 and u = 1 - uniProb included, SampleDiscrete takes the
\* uniform branch exactly when u > 1 - uniProb, reads sampleMap inside its
\* bounds only, and returns an index in [0, n_all).
C32_SparseSampleInRange ==
    (pk # <<>> /\ pk.d.kind = "sparse") =>
        /\ pk.uniform <=> FLess(FSub(One, pk.d.uniProb), pk.u)
        /\ pk.index \in 0..(pk.d.nAll - 1)
        /\ \A k \in DOMAIN pk.read : pk.read[k] \in DOMAIN pk.d.sampleMap

C34_ZeroEntryNeverSampled ==
    (pk # <<>> /\ pk.d.kind = "dense" /\ FLess(Zero, pk.d.funcInt)) =>
        /\ pk.index \in DOMAIN pk.d.func
        /\ FLess(Zero, pk.d.func[pk.index])

\* u = 0 with a first entry of zero: the second entry is sampled
C34_Witness ==
    /\ pk # <<>>
    /\ pk.d.kind = "dense"
    /\ Size(pk.d.func) = 3
    /\ pk.d.func[0] = Zero /\ pk.d.func[1] = One /\ pk.d.func[2] = Zero
    /\ pk.u = Zero
    /\ pk.index = 1

\* C38: a Distribution1D built from n >= 1 values that are all 0 has
\* cdf[i] = i / n for every i in [0, n], SampleDiscrete(u) returns floor(u * n)
\* for every u in [0, 1), and each index is sampled over a set of u of length
\* 1 / n.
C38_AllZeroSamplesUniformly ==
    (pk # <<>> /\ pk.d.kind = "dense" /\ \A i \in DOMAIN pk.d.func : pk.d.func[i] = Zero) =>
        LET n == Size(pk.d.func)
        IN  /\ \A i \in 0..n : pk.d.cdf[i] = FDiv(Float(i), Float(n))
            /\ pk.index = TruncInt(FMul(pk.u, Float(n)))
            /\ \A i \in 0..(n - 1) : SampledLength(pk.d, i) = FDiv(One, Float(n))

\* three zeros sampled at u = 2/3: index 2
C38_Witness ==
    /\ pk # <<>>
    /\ pk.d.kind = "dense"
    /\ Size(pk.d.func) = 3
    /\ \A i \in DOMAIN pk.d.func : pk.d.func[i] = Zero
    /\ pk.u = <<2, 3>>
    /\ pk.index = 2

-----------------------------------------------------------------------------
(* SpatialLightDistribution::ComputeDistribution: the contributions of the  *)
(* lights at the sample points of a voxel, the floor, and the distribution  *)
(* built from them.  dist.args holds what Sample_Li yields for each light   *)
(* (the same at every sample point), dist.d the distribution once built.    *)

nSamples == 128

\* the lights of the scene: one or two
SceneLights == {1, 2}

\* Li.y() and pdf of Sample_Li: a black sample, samples of pdf 0, and
\* samples of Li.y() / pdf = 1 and 2
LiSamples ==
    {[Li |-> Zero, pdf |-> One], [Li |-> One, pdf |-> Zero], [Li |-> Float(3), pdf |-> Zero],
     [Li |-> One, pdf |-> One], [Li |-> One, pdf |-> <<1, 2>>], [Li |-> Float(2), pdf |-> One],
     [Li |-> <<1, 2>>, pdf |-> <<1, 2>>]}

\* lightContrib[j] after i iterations of the loop over the sample points:
\* Li.y() / pdf is added in every iteration with pdf > 0 (the sum over an even
\* number of iterations is taken as twice the sum over half of them)
RECURSIVE SampledContrib(_, _)
SampledContrib(s, i) ==
    IF i = 0 THEN Zero
    ELSE IF i % 2 = 0
         THEN LET half == SampledContrib(s, i \div 2) IN FAdd(half, half)
    ELSE IF FLess(Zero, s.pdf) THEN FAdd(SampledContrib(s, i - 1), FDiv(s.Li, s.pdf))
    ELSE SampledContrib(s, i - 1)

\* a floor of 0.001 * avgContrib whatever avgContrib is
minContribScaled(lightContrib) ==
    FMul(<<1, 1000>>, FDiv(SumTo(lightContrib, Size(lightContrib)),
                           Float(nSamples * Size(lightContrib))))

\* minContrib = (avgContrib > 0) ? .001 * avgContrib : 1
minContrib(lightContrib) ==
    LET sumContrib == SumTo(lightContrib, Size(lightContrib))
        avgContrib == FDiv(sumContrib, Float(nSamples * Size(lightContrib)))
    IN  IF FLess(Zero, avgContrib) THEN FMul(<<1, 1000>>, avgContrib) ELSE One

\* the Distribution1D ComputeDistribution returns
ComputedDistribution(samples) ==
    LET lightContrib == [j \in DOMAIN samples |-> SampledContrib(samples[j], nSamples)]
        floor == minContrib(lightContrib)
    IN  Distribution1D([j \in DOMAIN samples |-> FMax(lightContrib[j], floor)])

CdInit ==
    \E n \in SceneLights : \E samples \in [0..(n - 1) -> LiSamples] :
        dist = [d |-> NoDistrib, args |-> <<samples>>]

BuildVoxelDistribution ==
    /\ dist.d = NoDistrib
    /\ dist' = [dist EXCEPT !.d = ComputedDistribution(dist.args[1])]

InitCompute == SpatialOff /\ PvOff /\ MlOff /\ KdOff /\ LdOff /\ CdInit /\ PkOff /\ KlOff /\ CbOff

NextCompute ==
    /\ UNCHANGED <<pk, kl, cb, hashTable, threads, heap, returned, nLookups,
                   pvTable, pvTasks, pvMutex, pvPhase, pvLookups, ml, kd, ld>>
    /\ BuildVoxelDistribution

SpecCompute == InitCompute /\ [][NextCompute]_vars

\* Li.y() / pdf summed over the sample points with pdf > 0
RawContrib(s) == IF FLess(Zero, s.pdf) THEN FMul(Float(nSamples), FDiv(s.Li, s.pdf)) ELSE Zero

\* C36: every distribution built by ComputeDistribution gives every light a
\* strictly positive probability: each contribution is raised to at least
\* min, which is 0.001 * (sum of contributions / (128 * number of lights))
\* when that average is positive and 1, a uniform distribution, when every
\* light contributed 0.
C36_EveryLightPositive ==
    dist.d # NoDistrib =>
        LET samples == dist.args[1]
            n == Size(samples)
            raw == [j \in DOMAIN samples |-> RawContrib(samples[j])]
            avg == FDiv(SumTo(raw, n), Float(128 * n))
            min == IF FLess(Zero, avg) THEN FMul(<<1, 1000>>, avg) ELSE One
        IN  /\ \A j \in DOMAIN samples :
                  /\ dist.d.func[j] = FMax(raw[j], min)
                  /\ FLess(Zero, DiscretePDF(dist.d, j))
            /\ (\A j \in DOMAIN samples : raw[j] = Zero) =>
                  \A j \in DOMAIN samples : DiscretePDF(dist.d, j) = FDiv(One, Float(n))

\* two lights, one of which contributed nothing at any sample point: it is
\* given the floor
C36_Witness ==
    /\ dist.d # NoDistrib
    /\ Size(dist.d.func) = 2
    /\ dist.args[1][0].pdf = Zero
    /\ dist.args[1][1].Li = Float(2)
    /\ dist.d.func[0] = <<1, 1000>>

-----------------------------------------------------------------------------
(* PhotonBasedMlCdfKdTreeLightDistribution::Lookup over the cdf cloud that  *)
(* buildCluster left, and SampleDiscrete of a child of the distribution it  *)
(* returned.  knnSearch is outside these sources: it returns the nearest    *)
(* entries of the cloud in some order with nondecreasing squared distances. *)

\* ret_index after knnSearch: distinct entries of the cdf cloud
KnnResults ==
    {r \in [0..(KnnCount(knCdf, cdfCount) - 1) -> Clusters] :
        \A a, b \in DOMAIN r : a # b => r[a] # r[b]}

\* 1.0f / out_dist_sqr[i] for the found entries
KnnInfluences ==
    {f \in [0..(KnnCount(knCdf, cdfCount) - 1) -> {One, <<1, 4>>}] :
        \A a, b \in DOMAIN f : a < b => FLeq(f[b], f[a])}

RECURSIVE FoundDistr(_, _)
FoundDistr(ret_index, n) ==
    IF n = 0 THEN <<>>
    ELSE (n - 1) :> ml.cdfCloud[ret_index[n - 1]].distr @@ FoundDistr(ret_index, n - 1)

\* lines 928-952, the branch knn
MlLookup(ret_index, influence) ==
    /\ ml.pc = "built"
    /\ pk = <<>>
    /\ pk' = [d |-> InterpolatedDistribution1D(influence,
                        FoundDistr(ret_index, Size(ret_index))),
              sampled |-> <<>>]
    /\ UNCHANGED ml

\* what a read outside sampleMap yields: an index of a light or any other int
OutsideReads == {0, NumLights}

\* distributions[k]->SampleDiscrete(u) of the returned distribution
MlSampleChild(k, u, oob) ==
    /\ pk # <<>>
    /\ pk.sampled = <<>>
    /\ pk' = [pk EXCEPT !.sampled =
                  <<[child |-> k, u |-> u,
                     index |-> SampleDiscrete(pk.d.distributions[k], u, oob).index]>>]
    /\ UNCHANGED ml

InitMlLookup == InitMlCluster

NextMlLookup ==
    \/ pk = <<>> /\ NextMlCluster
    \/ /\ UNCHANGED <<kl, cb, hashTable, threads, heap, returned, nLookups,
                      pvTable, pvTasks, pvMutex, pvPhase, pvLookups, kd, ld, dist>>
       /\ \/ \E ret_index \in KnnResults, influence \in KnnInfluences :
                MlLookup(ret_index, influence)
          \/ /\ pk # <<>>
             /\ \E k \in DOMAIN pk.d.distributions :
                   \E u \in SampleUs(pk.d.distributions[k]), oob \in OutsideReads :
                      MlSampleChild(k, u, oob)

SpecMlLookup == InitMlLookup /\ [][NextMlLookup]_vars

\* C37: all children of the InterpolatedDistribution1D that Lookup returned
\* have the same Count(), the number of scene lights; Count() of the
\* interpolated distribution is that count; and every index sampled from a
\* child is a valid argument of DiscretePDF of every child, that is, lies in
\* [0, Count()).
C37_ChildrenShareCount ==
    pk # <<>> =>
        LET d == pk.d
        IN  /\ \A k \in DOMAIN d.distributions : Count(d.distributions[k]) = NumLights
            /\ Count(d) = NumLights
            /\ \A s \in DOMAIN pk.sampled :
                  \A k \in DOMAIN d.distributions :
                     pk.sampled[s].index \in 0..(Count(d.distributions[k]) - 1)

=============================================================================
